---- MODULE Spec2Model ----
(***************************************************************************)
(* Model of the numerical core of nnVisualiser: Neuron, Layer and          *)
(* NeuralNetwork (src/src/core/*.cpp, src/include/core/*.hpp).             *)
(*                                                                         *)
(* Numbers.  The code is templated on float/double.  The model works on    *)
(* the integer-valued part of that domain, where every operation the       *)
(* modelled code performs (+, -, *, max, division by the exact divisors    *)
(* that occur) is exact in IEEE arithmetic: weights, biases, inputs and    *)
(* targets are small integers, the learning rate is an integer, the        *)
(* activation functions are None (linear) and ReLU, the loss is the mean   *)
(* squared error over 1 or 2 outputs.  Rates and progress values that are  *)
(* proper fractions are kept as exact fractions: a dropout rate is counted *)
(* in halves, trainingProgress is a pair num/den.                          *)
(*                                                                         *)
(* Indices.  The code counts layers and units from 0; sequences here       *)
(* count from 1.  Layer i of the code is net.layers[i+1]; the neuron id    *)
(* stored in a unit is the code's 0-based id.                              *)
(***************************************************************************)
EXTENDS Integers, Sequences, FiniteSets, TLC

VARIABLES
  net,               \* name_, layers_, learningRate_, lossType_, optimizerType_
  isTraining,        \* isTraining_
  shouldStop,        \* shouldStop_
  trainingProgress,  \* trainingProgress_, as a fraction [num, den]
  tpc,               \* position of the thread executing train()
  tr,                \* locals of the running train() call
  cbLog,             \* epochs the progress callback was invoked with
  last,              \* name of the last operation that acted
  arg,               \* input of the last forward/predict/predictBatch call
  ret,               \* what that operation returned
  prevPredict,       \* <<input, output>> of the predict call, if it was one,
                     \* that the last call followed immediately
  bkTrace,           \* steps of the last backward(), each with the layers it left
  stopEpoch,         \* epoch train() was executing when stopTraining() set the flag
  calls,             \* number of API calls made so far
  doc,               \* last document produced by toJson
  copy,              \* network rehydrated from doc by fromJson
  fg                 \* position and locals of a predict() call that another
                     \* thread is executing beside train()

vars == <<net, isTraining, shouldStop, trainingProgress, tpc, tr, cbLog,
          last, arg, ret, prevPredict, bkTrace, stopEpoch, calls, doc, copy, fg>>

(***************************************************************************)
(* Bounds of the exploration.                                              *)
(***************************************************************************)
MaxLayers == 3
MaxCalls == 3        \* API calls per behaviour
MaxEpochs == 3       \* epochs of a train call
MaxSamples == 3      \* samples of a data set
MaxBatchSize == 2
MaxTrainSteps == 4   \* samples * epochs of a train call
MaxErrCalls == 2     \* API calls per behaviour where arguments may be malformed
MaxBatches == 2      \* batches that fit in memory when createBatches never ends
MaxAbs == 4          \* |weight|, |bias| a computation starts from

----------------------------------------------------------------------------
(* Generic helpers *)

Max(a, b) == IF a >= b THEN a ELSE b
Min(a, b) == IF a <= b THEN a ELSE b

RECURSIVE SumTo(_, _)
SumTo(f, n) == IF n = 0 THEN 0 ELSE f[n] + SumTo(f, n - 1)

\* Exact quotient; the model only divides where the quotient is an integer.
Div(a, b) == IF a >= 0 THEN a \div b ELSE -((-a) \div b)

----------------------------------------------------------------------------
(* Types.hpp: enumerations and their ordinals *)

ActivationTypes == <<"None", "ReLU", "Sigmoid", "Tanh", "LeakyReLU", "ELU",
                     "Swish", "GELU", "Softmax">>
OptimizerTypes == <<"SGD", "Adam", "RMSprop", "AdaGrad">>
LossTypes == <<"MeanSquaredError", "CrossEntropy", "BinaryCrossEntropy",
               "Huber", "FocalLoss">>
InitializationTypes == <<"Random", "Xavier", "He", "Zero", "One">>

\* static_cast<int>(enumerator)
EnumToInt(enum, tag) == (CHOOSE k \in 1..Len(enum) : enum[k] = tag) - 1
\* static_cast<Enum>(int)
IntToEnum(enum, k) == enum[k + 1]

----------------------------------------------------------------------------
(* Random numbers.  Every initializer and every dropout call builds its    *)
(* own std::mt19937 seeded from std::random_device; the seed is a free     *)
(* choice, the stream of draws is a function of the seed.                  *)

Seeds == {1, 2}
\* n-th value of dist(gen) for a symmetric distribution around 0
Draw(seed, n) == ((seed * n + seed) % 3) - 1
\* n-th value of uniform_real_distribution(-1, 1): in [-1, 1)
DrawUnit(seed, n) == IF Draw(seed, n) = 1 THEN 0 ELSE Draw(seed, n)

----------------------------------------------------------------------------
(* Neuron *)

Neuron(id) ==
  [id |-> id, activation |-> 0, bias |-> 0, weightedInput |-> 0,
   gradient |-> 0, delta |-> 0, trainable |-> TRUE, name |-> "",
   inputWeights |-> <<>>]

\* Neuron::reset clearing the bias as well
Neuron_reset_clearsBias(u) ==
  [u EXCEPT !.activation = 0, !.weightedInput = 0, !.gradient = 0,
            !.delta = 0, !.bias = 0]

Neuron_reset(u) ==
  [u EXCEPT !.activation = 0, !.weightedInput = 0, !.gradient = 0,
            !.delta = 0]

----------------------------------------------------------------------------
(* ActivationFunctions.hpp *)

ActivationFunc(type, x) ==
  CASE type = "None" -> x
    [] type = "ReLU" -> Max(0, x)

ActivationDerivFunc(type, x) ==
  CASE type = "None" -> 1
    [] type = "ReLU" -> IF x > 0 THEN 1 ELSE 0

Neuron_applyActivation(u, type) ==
  [u EXCEPT !.activation = ActivationFunc(type, u.weightedInput + u.bias)]

Neuron_computeActivationDerivative(u, type) ==
  ActivationDerivFunc(type, u.weightedInput + u.bias)

----------------------------------------------------------------------------
(* Layer *)

\* Layer::Layer(const LayerConfig&)
LayerFromConfig(c) ==
  [neurons |-> [i \in 1..c.size |-> Neuron(i - 1)],
   name |-> c.name,
   activationType |-> c.activation,
   dropoutRate |-> c.dropout_rate,
   trainable |-> c.trainable,
   dropoutMask |-> [i \in 1..c.size |-> TRUE]]

\* Layer::Layer(LayerSize, ActivationType = ReLU, name = "")
LayerOfSize(size) ==
  [neurons |-> [i \in 1..size |-> Neuron(i - 1)],
   name |-> "",
   activationType |-> "ReLU",
   dropoutRate |-> 0,
   trainable |-> TRUE,
   dropoutMask |-> [i \in 1..size |-> TRUE]]

Layer_getSize(l) == Len(l.neurons)

Layer_getActivations(l) == [i \in 1..Len(l.neurons) |-> l.neurons[i].activation]

\* initializeXavier / initializeHe: weights drawn in unit order, bias 0
InitDrawn(l, prevLayerSize, seed) ==
  [l EXCEPT !.neurons =
     [i \in 1..Len(l.neurons) |->
        [l.neurons[i] EXCEPT
           !.inputWeights = [k \in 1..prevLayerSize |->
                               Draw(seed, (i - 1) * prevLayerSize + k)],
           !.bias = 0]]]

\* initializeRandom: per unit, the weights and then the bias are drawn
InitRandom(l, prevLayerSize, seed) ==
  [l EXCEPT !.neurons =
     [i \in 1..Len(l.neurons) |->
        [l.neurons[i] EXCEPT
           !.inputWeights = [k \in 1..prevLayerSize |->
                               DrawUnit(seed, (i - 1) * (prevLayerSize + 1) + k)],
           !.bias = DrawUnit(seed, i * (prevLayerSize + 1))]]]

InitConst(l, prevLayerSize, c) ==
  [l EXCEPT !.neurons =
     [i \in 1..Len(l.neurons) |->
        [l.neurons[i] EXCEPT
           !.inputWeights = [k \in 1..prevLayerSize |-> c],
           !.bias = c]]]

Layer_initializeWeights(l, prevLayerSize, initType, seed) ==
  CASE initType = "Xavier" -> InitDrawn(l, prevLayerSize, seed)
    [] initType = "He"     -> InitDrawn(l, prevLayerSize, seed)
    [] initType = "Random" -> InitRandom(l, prevLayerSize, seed)
    [] initType = "Zero"   -> InitConst(l, prevLayerSize, 0)
    [] initType = "One"    -> InitConst(l, prevLayerSize, 1)

Layer_reset(l) ==
  [l EXCEPT !.neurons = [i \in 1..Len(l.neurons) |-> Neuron_reset(l.neurons[i])],
            !.dropoutMask = [i \in 1..Len(l.dropoutMask) |-> TRUE]]


\* Layer::forward with weightedSum starting from the unit's weighted input
Layer_forward_accumulates(l, inputs) ==
  [l EXCEPT !.neurons =
     [i \in 1..Len(l.neurons) |->
        [l.neurons[i] EXCEPT !.weightedInput =
           @ + SumTo([k \in 1..Len(inputs) |->
                        inputs[k] * l.neurons[i].inputWeights[k]], Len(inputs))]]]

\* Layer::forward: weighted input of every unit = sum of inputs[k] * weights[k]
Layer_forward(l, inputs) ==
  [l EXCEPT !.neurons =
     [i \in 1..Len(l.neurons) |->
        [l.neurons[i] EXCEPT !.weightedInput =
           SumTo([k \in 1..Len(inputs) |->
                    inputs[k] * l.neurons[i].inputWeights[k]], Len(inputs))]]]

\* Layer::applyActivation, per-unit branch (the Softmax branch needs
\* exponentials and lies outside the integer domain of the model)
Layer_applyActivation(l) ==
  [l EXCEPT !.neurons =
     [i \in 1..Len(l.neurons) |->
        Neuron_applyActivation(l.neurons[i], l.activationType)]]

\* Layer::applyDropout.  dropoutRate is counted in halves, so keepProb is
\* (2 - dropoutRate)/2; u[i] is the i-th value of dist(gen), in halves.
Layer_applyDropout(l, training, u) ==
  IF ~training \/ l.dropoutRate <= 0
  THEN [l EXCEPT !.dropoutMask = [i \in 1..Len(l.dropoutMask) |-> TRUE]]
  ELSE LET keepProb2 == 2 - l.dropoutRate
           mask == [i \in 1..Len(l.dropoutMask) |-> u[i] < keepProb2]
       IN [l EXCEPT
             !.dropoutMask = mask,
             !.neurons =
               [i \in 1..Len(l.neurons) |->
                  IF ~mask[i]
                  THEN [l.neurons[i] EXCEPT !.activation = 0]
                  ELSE [l.neurons[i] EXCEPT
                          !.activation = Div(2 * @, keepProb2)]]]

\* Layer::setActivations
Layer_setActivations(l, activations) ==
  [l EXCEPT !.neurons =
     [i \in 1..Len(l.neurons) |->
        [l.neurons[i] EXCEPT !.activation = activations[i]]]]

\* Layer::computeGradients
Layer_computeGradients(l, nextLayerDeltas, nextLayerWeights) ==
  [l EXCEPT !.neurons =
     [i \in 1..Len(l.neurons) |->
        [l.neurons[i] EXCEPT !.delta =
           SumTo([j \in 1..Len(nextLayerDeltas) |->
                    nextLayerDeltas[j] * nextLayerWeights[j][i]],
                 Len(nextLayerDeltas))
           * Neuron_computeActivationDerivative(l.neurons[i], l.activationType)]]]

\* Layer::updateWeights without the test of trainable_
Layer_updateWeights_anyLayer(l, learningRate, prevLayerActivations) ==
  [l EXCEPT !.neurons =
     [i \in 1..Len(l.neurons) |->
        [l.neurons[i] EXCEPT
           !.inputWeights =
              [k \in 1..Len(l.neurons[i].inputWeights) |->
                 l.neurons[i].inputWeights[k]
                   - learningRate * l.neurons[i].delta * prevLayerActivations[k]],
           !.bias = @ - learningRate * l.neurons[i].delta]]]

\* Layer::updateWeights
Layer_updateWeights(l, learningRate, prevLayerActivations) ==
  IF ~l.trainable THEN l
  ELSE [l EXCEPT !.neurons =
          [i \in 1..Len(l.neurons) |->
             [l.neurons[i] EXCEPT
                !.inputWeights =
                   [k \in 1..Len(l.neurons[i].inputWeights) |->
                      l.neurons[i].inputWeights[k]
                        - learningRate * l.neurons[i].delta * prevLayerActivations[k]],
                !.bias = @ - learningRate * l.neurons[i].delta]]]

----------------------------------------------------------------------------
(* NeuralNetwork: construction and structural edits *)

\* NeuralNetwork::addLayer(std::unique_ptr<Layer>)
Net_addLayer(n, layer, seed) ==
  [n EXCEPT !.layers =
     Append(@, IF Len(n.layers) > 0
               THEN Layer_initializeWeights(
                      layer, Layer_getSize(n.layers[Len(n.layers)]), "Xavier", seed)
               ELSE layer)]

\* removeLayer without the loop that re-initializes the layers that follow
Net_removeLayer_eraseOnly(n, index, seed) ==
  IF index >= Len(n.layers) THEN n
  ELSE [n EXCEPT !.layers = [i \in 1..(Len(n.layers) - 1) |->
                               IF i <= index THEN n.layers[i] ELSE n.layers[i + 1]]]

\* NeuralNetwork::removeLayer; index is the code's 0-based index
Net_removeLayer(n, index, seed) ==
  IF index >= Len(n.layers) THEN n
  ELSE LET erased == [i \in 1..(Len(n.layers) - 1) |->
                        IF i <= index THEN n.layers[i] ELSE n.layers[i + 1]]
       IN [n EXCEPT !.layers =
             [i \in 1..Len(erased) |->
                IF i - 1 >= index /\ i - 1 > 0
                THEN Layer_initializeWeights(
                       erased[i], Layer_getSize(erased[i - 1]), "Xavier", seed)
                ELSE erased[i]]]

\* NeuralNetwork::clearLayers
Net_clearLayers(n) == [n EXCEPT !.layers = <<>>]

\* NeuralNetwork::initializeWeights
Net_initializeWeights(n, initType, seed) ==
  [n EXCEPT !.layers =
     [i \in 1..Len(n.layers) |->
        IF i >= 2
        THEN Layer_initializeWeights(
               n.layers[i], Layer_getSize(n.layers[i - 1]), initType, seed)
        ELSE n.layers[i]]]

\* NeuralNetwork::reset, the part on layers_
Net_reset(n) ==
  [n EXCEPT !.layers = [i \in 1..Len(n.layers) |-> Layer_reset(n.layers[i])]]

RECURSIVE AddLayers(_, _, _)
AddLayers(n, configs, seed) ==
  IF configs = <<>> THEN n
  ELSE AddLayers(Net_addLayer(n, LayerFromConfig(Head(configs)), seed),
                 Tail(configs), seed)

\* NeuralNetwork::NeuralNetwork(const NetworkConfig&)
NetFromConfig(config, seed) ==
  LET added == AddLayers([name |-> config.name, layers |-> <<>>,
                          learningRate |-> config.learning_rate,
                          lossType |-> config.loss,
                          optimizerType |-> config.optimizer],
                         config.layers, seed)
  IN IF added.layers # <<>> THEN Net_initializeWeights(added, "Xavier", seed)
     ELSE added

\* NeuralNetwork::NeuralNetwork(const std::string& name = "Neural Network");
\* the learning rate 0.001 of the code is outside the integer domain and is
\* always overwritten before it is read: it is kept as the integer 0.
DefaultNet ==
  [name |-> "Neural Network", layers |-> <<>>, learningRate |-> 0,
   lossType |-> "MeanSquaredError", optimizerType |-> "Adam"]

----------------------------------------------------------------------------
(* NeuralNetwork: forward, backward *)

RECURSIVE ForwardFrom(_, _, _, _)
\* the loop of NeuralNetwork::forward over layers i..size-1 (here i..Len)
ForwardFrom(layers, i, training, u) ==
  IF i > Len(layers) THEN layers
  ELSE LET prevActivations == Layer_getActivations(layers[i - 1])
           done == Layer_applyDropout(
                     Layer_applyActivation(Layer_forward(layers[i], prevActivations)),
                     training, u[i])
       IN ForwardFrom([layers EXCEPT ![i] = done], i + 1, training, u)

\* forward that stores the inputs in the first layer before it tests
\* their length
Net_forward_storesFirst(n, inputs, training, u) ==
  IF n.layers = <<>> THEN [net |-> n, out |-> <<>>]
  ELSE LET stored == [n.layers EXCEPT ![1].neurons =
                        [i \in 1..Len(n.layers[1].neurons) |->
                           [n.layers[1].neurons[i] EXCEPT !.activation =
                              IF i <= Len(inputs) THEN inputs[i] ELSE @]]]
       IN IF Len(inputs) # Layer_getSize(n.layers[1])
          THEN [net |-> [n EXCEPT !.layers = stored], out |-> <<>>]
          ELSE LET ls == ForwardFrom(stored, 2, training, u)
               IN [net |-> [n EXCEPT !.layers = ls],
                   out |-> Layer_getActivations(ls[Len(ls)])]

\* forward returning the activations of the input layer
Net_forward_inputLayer(n, inputs, training, u) ==
  IF n.layers = <<>> THEN [net |-> n, out |-> <<>>]
  ELSE IF Len(inputs) # Layer_getSize(n.layers[1]) THEN [net |-> n, out |-> <<>>]
  ELSE LET ls == ForwardFrom(
                   [n.layers EXCEPT ![1] = Layer_setActivations(@, inputs)],
                   2, training, u)
       IN [net |-> [n EXCEPT !.layers = ls],
           out |-> Layer_getActivations(ls[1])]

\* NeuralNetwork::forward; training is isTraining_.load(), u the dropout draws
Net_forward(n, inputs, training, u) ==
  IF n.layers = <<>> THEN [net |-> n, out |-> <<>>]
  ELSE IF Len(inputs) # Layer_getSize(n.layers[1]) THEN [net |-> n, out |-> <<>>]
  ELSE LET ls == ForwardFrom(
                   [n.layers EXCEPT ![1] = Layer_setActivations(@, inputs)],
                   2, training, u)
       IN [net |-> [n EXCEPT !.layers = ls],
           out |-> Layer_getActivations(ls[Len(ls)])]


----------------------------------------------------------------------------
(* LossFunctions.hpp: mean squared error.  A loss value is a fraction      *)
(* [num, den]; den = 0 stands for the NaN of a division 0/0.               *)

Frac(a, b) == [num |-> a, den |-> b]
FracAdd(x, y) == IF x.den = y.den THEN Frac(x.num + y.num, x.den)
                 ELSE Frac(x.num * y.den + y.num * x.den, x.den * y.den)
FracDiv(x, k) == Frac(x.num, x.den * k)
FracEq(x, y) == x.den # 0 /\ y.den # 0 /\ x.num * y.den = y.num * x.den
FracLe(x, y) == x.num * y.den <= y.num * x.den

meanSquaredError(outputs, targets) ==
  IF Len(outputs) # Len(targets) THEN Frac(0, 1)
  ELSE Frac(SumTo([i \in 1..Len(outputs) |->
                     (outputs[i] - targets[i]) * (outputs[i] - targets[i])],
                  Len(outputs)),
            Len(outputs))

\* v[i] as std::vector::operator[] yields it, i counted from 1: the element,
\* or past the end of v the value g that the memory there holds
At(v, i, g) == IF i \in 1..Len(v) THEN v[i] ELSE g

\* the values a read past the end of a vector yields in the runs explored
Junk == {0, 1}

meanSquaredErrorGradient(outputs, targets, g) ==
  [i \in 1..Len(outputs) |-> Div(2 * (outputs[i] - At(targets, i, g)), Len(outputs))]

----------------------------------------------------------------------------------------------------------------------------------------
(* NeuralNetwork::backward.  The three loops of the code are folded in the *)
(* code's order over a pair [layers, trace]; trace records each step with  *)
(* the layers as the step left them, after an "enter" event with the       *)
(* layers as backward found them.                                          *)

Event(op, i, layers) == [op |-> op, layer |-> i, layers |-> layers]

\* lines 168-170: seed the output layer's deltas from the loss gradient
SeedOutputDeltas(st, outputGradients, g) ==
  LET L == Len(st.layers)
      ls == [st.layers EXCEPT ![L].neurons =
               [i \in 1..Len(st.layers[L].neurons) |->
                  [st.layers[L].neurons[i] EXCEPT !.delta = At(outputGradients, i, g)]]]
  IN [layers |-> ls, trace |-> Append(st.trace, Event("delta", L, ls))]

\* one iteration of the loop of lines 173-187, on layers[i]
HiddenDeltaStep(st, i) ==
  LET nextLayer == st.layers[i + 1]
      nextLayerDeltas == [j \in 1..Len(nextLayer.neurons) |-> nextLayer.neurons[j].delta]
      nextLayerWeights == [j \in 1..Len(nextLayer.neurons) |->
                             nextLayer.neurons[j].inputWeights]
      ls == [st.layers EXCEPT ![i] =
               Layer_computeGradients(@, nextLayerDeltas, nextLayerWeights)]
  IN [layers |-> ls, trace |-> Append(st.trace, Event("delta", i, ls))]

\* one iteration of the loop of lines 190-193, on layers[i]
UpdateStep(st, i, learningRate) ==
  LET ls == [st.layers EXCEPT ![i] =
               Layer_updateWeights(@, learningRate,
                                   Layer_getActivations(st.layers[i - 1]))]
  IN [layers |-> ls, trace |-> Append(st.trace, Event("update", i, ls))]

RECURSIVE HiddenDeltas(_, _)
HiddenDeltas(st, i) ==
  IF i < 2 THEN st ELSE HiddenDeltas(HiddenDeltaStep(st, i), i - 1)

RECURSIVE UpdateAll(_, _, _)
UpdateAll(st, i, learningRate) ==
  IF i > Len(st.layers) THEN st
  ELSE UpdateAll(UpdateStep(st, i, learningRate), i + 1, learningRate)

RECURSIVE UpdateThenDelta(_, _, _)
\* one loop from the output layer down: layer i is updated, then the delta
\* of layer i - 1 is computed
UpdateThenDelta(st, i, learningRate) ==
  IF i < 2 THEN st
  ELSE LET updated == UpdateStep(st, i, learningRate)
       IN UpdateThenDelta(IF i > 2 THEN HiddenDeltaStep(updated, i - 1) ELSE updated,
                          i - 1, learningRate)

\* the passes of backward with the update loop fused into the delta loop
BackwardPasses_fused(n, targets, outputs, g) ==
  UpdateThenDelta(
    SeedOutputDeltas([layers |-> n.layers, trace |-> <<Event("enter", 0, n.layers)>>],
                     meanSquaredErrorGradient(outputs, targets, g), g),
    Len(n.layers), n.learningRate)

\* lines 164-193
BackwardPasses(n, targets, outputs, g) ==
  UpdateAll(
    HiddenDeltas(
      SeedOutputDeltas([layers |-> n.layers, trace |-> <<Event("enter", 0, n.layers)>>],
                       meanSquaredErrorGradient(outputs, targets, g), g),
      Len(n.layers) - 1),
    2, n.learningRate)

\* backward(targets, outputs) indexes past the end of a vector: targets[i]
\* at line 59 of LossFunctions.hpp for some i < outputs.size(), or
\* outputGradients[i] at line 169 for some i < outputLayer.getSize()
ReadsPastEnd(n, targets, outputs) ==
  /\ Len(n.layers) >= 2
  /\ \/ Len(targets) < Len(outputs)
     \/ Len(outputs) < Layer_getSize(n.layers[Len(n.layers)])

\* oob tells whether the call read past the end of a vector, which the
\* trace records in a last event; g is the value such a read yielded
Net_backward(n, targets, outputs, g) ==
  IF Len(n.layers) < 2
  THEN [net |-> n, loss |-> Frac(0, 1), trace |-> <<>>, oob |-> FALSE]
  ELSE LET st == BackwardPasses(n, targets, outputs, g)
       IN [net |-> [n EXCEPT !.layers = st.layers],
           loss |-> meanSquaredError(outputs, targets),
           trace |-> IF ReadsPastEnd(n, targets, outputs)
                     THEN Append(st.trace, Event("oob", 0, st.layers))
                     ELSE st.trace,
           oob |-> ReadsPastEnd(n, targets, outputs)]

\* the values that the reads past the end of a trainSample call yield in the
\* runs explored; a call that reads in bounds only is run with one value
JunkFor(n, inputs, targets) ==
  IF ReadsPastEnd(n, targets,
                  IF n.layers # <<>> /\ Len(inputs) = Layer_getSize(n.layers[1])
                  THEN Layer_getActivations(n.layers[Len(n.layers)])
                  ELSE <<>>)
  THEN Junk
  ELSE {0}

\* NeuralNetwork::trainSample
Net_trainSample(n, inputs, targets, training, u, g) ==
  LET f == Net_forward(n, inputs, training, u)
  IN Net_backward(f.net, targets, f.out, g)

----------------------------------------------------------------------------
(* NeuralNetwork::predict / predictBatch *)

NoDraws == [i \in 1..(MaxLayers + 1) |-> <<>>]

\* predict without the store of line 322: the forward pass runs in the mode
\* found on entry, every value of dist(gen) being 0
Net_predict_keepsMode(n, inputs, wasTraining) ==
  LET f == Net_forward(n, inputs, wasTraining,
                       [i \in 1..Len(n.layers) |->
                          [k \in 1..Len(n.layers[i].neurons) |-> 0]])
  IN [net |-> f.net, out |-> f.out, isTraining |-> wasTraining]

\* wasTraining is the flag read on entry; the forward pass runs after
\* isTraining_.store(false); the flag stored last is wasTraining
Net_predict(n, inputs, wasTraining) ==
  LET f == Net_forward(n, inputs, FALSE, NoDraws)
  IN [net |-> f.net, out |-> f.out, isTraining |-> wasTraining]

RECURSIVE Net_predictBatch(_, _, _)
Net_predictBatch(n, inputBatch, wasTraining) ==
  IF inputBatch = <<>>
  THEN [net |-> n, outs |-> <<>>, isTraining |-> wasTraining]
  ELSE LET p == Net_predict(n, Head(inputBatch), wasTraining)
           rest == Net_predictBatch(p.net, Tail(inputBatch), p.isTraining)
       IN [net |-> rest.net, outs |-> <<p.out>> \o rest.outs,
           isTraining |-> rest.isTraining]

----------------------------------------------------------------------------
(* Persistence: toJson / fromJson.  A document is a record whose fields    *)
(* are the JSON keys; json.contains(k) is k \in DOMAIN j.                   *)

Neuron_toJson(u) ==
  [id |-> u.id, activation |-> u.activation, bias |-> u.bias,
   weighted_input |-> u.weightedInput, gradient |-> u.gradient,
   delta |-> u.delta, trainable |-> u.trainable, name |-> u.name,
   input_weights |-> u.inputWeights]

Neuron_fromJson(u, j) ==
  [id |-> IF "id" \in DOMAIN j THEN j.id ELSE u.id,
   activation |-> IF "activation" \in DOMAIN j THEN j.activation ELSE u.activation,
   bias |-> IF "bias" \in DOMAIN j THEN j.bias ELSE u.bias,
   weightedInput |-> IF "weighted_input" \in DOMAIN j THEN j.weighted_input
                     ELSE u.weightedInput,
   gradient |-> IF "gradient" \in DOMAIN j THEN j.gradient ELSE u.gradient,
   delta |-> IF "delta" \in DOMAIN j THEN j.delta ELSE u.delta,
   trainable |-> IF "trainable" \in DOMAIN j THEN j.trainable ELSE u.trainable,
   name |-> IF "name" \in DOMAIN j THEN j.name ELSE u.name,
   inputWeights |-> IF "input_weights" \in DOMAIN j THEN j.input_weights
                    ELSE u.inputWeights]

Layer_toJson(l) ==
  [name |-> l.name, size |-> Len(l.neurons),
   activation_type |-> EnumToInt(ActivationTypes, l.activationType),
   dropout_rate |-> l.dropoutRate, trainable |-> l.trainable,
   neurons |-> [i \in 1..Len(l.neurons) |-> Neuron_toJson(l.neurons[i])]]

\* Layer::fromJson without the read of "dropout_rate"
Layer_fromJson_keepsRate(l, j) ==
  [neurons |-> [i \in 1..Len(j.neurons) |-> Neuron_fromJson(Neuron(0), j.neurons[i])],
   name |-> j.name,
   activationType |-> IntToEnum(ActivationTypes, j.activation_type),
   dropoutRate |-> l.dropoutRate,
   trainable |-> j.trainable,
   dropoutMask |-> [i \in 1..Len(j.neurons) |->
                      IF i <= Len(l.dropoutMask) THEN l.dropoutMask[i] ELSE TRUE]]

\* Layer::fromJson
Layer_fromJson(l, j) ==
  LET hasNeurons == "neurons" \in DOMAIN j
      neurons == IF hasNeurons
                 THEN [i \in 1..Len(j.neurons) |-> Neuron_fromJson(Neuron(0), j.neurons[i])]
                 ELSE l.neurons
  IN [neurons |-> neurons,
      name |-> IF "name" \in DOMAIN j THEN j.name ELSE l.name,
      activationType |-> IF "activation_type" \in DOMAIN j
                         THEN IntToEnum(ActivationTypes, j.activation_type)
                         ELSE l.activationType,
      dropoutRate |-> IF "dropout_rate" \in DOMAIN j THEN j.dropout_rate
                      ELSE l.dropoutRate,
      trainable |-> IF "trainable" \in DOMAIN j THEN j.trainable ELSE l.trainable,
      \* dropoutMask_.resize(neurons_.size(), true)
      dropoutMask |-> IF hasNeurons
                      THEN [i \in 1..Len(neurons) |->
                              IF i <= Len(l.dropoutMask) THEN l.dropoutMask[i] ELSE TRUE]
                      ELSE l.dropoutMask]

Net_toJson(n) ==
  [name |-> n.name, learning_rate |-> n.learningRate,
   loss_type |-> EnumToInt(LossTypes, n.lossType),
   optimizer_type |-> EnumToInt(OptimizerTypes, n.optimizerType),
   layers |-> [i \in 1..Len(n.layers) |-> Layer_toJson(n.layers[i])]]

Net_fromJson(n, j) ==
  [name |-> IF "name" \in DOMAIN j THEN j.name ELSE n.name,
   learningRate |-> IF "learning_rate" \in DOMAIN j THEN j.learning_rate
                    ELSE n.learningRate,
   lossType |-> IF "loss_type" \in DOMAIN j THEN IntToEnum(LossTypes, j.loss_type)
                ELSE n.lossType,
   optimizerType |-> IF "optimizer_type" \in DOMAIN j
                     THEN IntToEnum(OptimizerTypes, j.optimizer_type)
                     ELSE n.optimizerType,
   layers |-> IF "layers" \in DOMAIN j
              THEN [i \in 1..Len(j.layers) |-> Layer_fromJson(LayerOfSize(1), j.layers[i])]
              ELSE n.layers]

\* A file as saveToFile and loadFromFile meet it: whether it can be opened,
\* whether its text parses, the document the text stands for, and the keys
\* of the document whose value has not the type that fromJson asks for
\* (a number for name, a string for learning_rate or for layers).
File(canOpen, parses, j, wrongType) ==
  [canOpen |-> canOpen, parses |-> parses, doc |-> j, wrongType |-> wrongType]

\* the keys of fromJson in the order of lines 391-417; get<>() of a value of
\* the wrong type throws, a "layers" that is no array is passed over
ScalarKeys == <<"name", "learning_rate", "loss_type", "optimizer_type">>

\* NeuralNetwork::fromJson on such a document: the network it leaves and
\* whether it threw
Net_fromJson_typed(n, j, wrongType) ==
  LET thrown == {k \in 1..Len(ScalarKeys) :
                   ScalarKeys[k] \in DOMAIN j /\ ScalarKeys[k] \in wrongType}
      first == CHOOSE k \in thrown : \A m \in thrown : k <= m
      upTo(k) == {ScalarKeys[m] : m \in 1..k} \cap DOMAIN j
      only(keys) == [x \in keys |-> j[x]]
  IN IF thrown # {}
     THEN [net |-> Net_fromJson(n, only(upTo(first - 1))), threw |-> TRUE]
     ELSE IF "layers" \in wrongType
     THEN [net |-> Net_fromJson(n, only(DOMAIN j \ {"layers"})), threw |-> FALSE]
     ELSE [net |-> Net_fromJson(n, j), threw |-> FALSE]

\* NeuralNetwork::saveToFile: what it returns, the text written if any, and
\* how often it opened the file
Net_saveToFile(n, file) ==
  IF ~file.canOpen
  THEN [ok |-> FALSE, written |-> <<>>, opens |-> 1, parses |-> 0]
  ELSE [ok |-> TRUE, written |-> Net_toJson(n), opens |-> 1, parses |-> 0]

\* NeuralNetwork::loadFromFile: the network it leaves, what it returns, and
\* how often it opened and parsed the file; an exception thrown by the
\* parser or by fromJson is caught at line 456
Net_loadFromFile(n, file) ==
  IF ~file.canOpen
  THEN [net |-> n, ok |-> FALSE, opens |-> 1, parses |-> 0]
  ELSE IF ~file.parses
  THEN [net |-> n, ok |-> FALSE, opens |-> 1, parses |-> 1]
  ELSE LET r == Net_fromJson_typed(n, file.doc, file.wrongType)
       IN [net |-> r.net, ok |-> ~r.threw, opens |-> 1, parses |-> 1]

----------------------------------------------------------------------------
(* NeuralNetwork: helpers of train *)

\* NeuralNetwork::computeAccuracy
IsCorrect(output, target) ==
  IF Len(output) = 1
  THEN LET prediction == IF 2 * output[1] > 1 THEN 1 ELSE 0
           diff == prediction - target[1]
       IN 2 * (IF diff >= 0 THEN diff ELSE -diff) < 1
  ELSE \* std::distance(begin, std::max_element(begin, end)): the first
       \* largest element, 0 for an empty range
       LET argmax(v) == IF v = <<>> THEN 0
                        ELSE (CHOOSE i \in 1..Len(v) :
                                /\ \A j \in 1..Len(v) : v[j] <= v[i]
                                /\ \A j \in 1..(i - 1) : v[j] < v[i]) - 1
       IN argmax(output) = argmax(target)

computeAccuracy(outputs, targets) ==
  IF outputs = <<>> \/ targets = <<>> \/ Len(outputs) # Len(targets)
  THEN Frac(0, 1)
  ELSE Frac(Cardinality({i \in 1..Len(outputs) : IsCorrect(outputs[i], targets[i])}),
            Len(outputs))

IndexPermutations(n) == {p \in [1..n -> 1..n] : \A i, j \in 1..n : p[i] = p[j] => i = j}

\* shuffleData reordering the inputs only
shuffleData_inputsOnly(inputs, targets, indices) ==
  IF Len(inputs) # Len(targets)
  THEN [inputs |-> inputs, targets |-> targets]
  ELSE [inputs |-> [i \in 1..Len(inputs) |-> inputs[indices[i]]],
        targets |-> targets]

\* NeuralNetwork::shuffleData; indices is the shuffled index vector
shuffleData(inputs, targets, indices) ==
  IF Len(inputs) # Len(targets)
  THEN [inputs |-> inputs, targets |-> targets]
  ELSE [inputs |-> [i \in 1..Len(inputs) |-> inputs[indices[i]]],
        targets |-> [i \in 1..Len(targets) |-> targets[indices[i]]]]

RECURSIVE BatchesFrom(_, _, _, _, _)
\* the loop of createBatches from the 0-based position i.  The range
\* targets.begin() + i .. targets.begin() + endIdx is copied unchecked: past
\* the end of targets each element copied is g
BatchesFrom(inputs, targets, batchSize, i, g) ==
  IF i >= Len(inputs) THEN <<>>
  ELSE LET endIdx == Min(i + batchSize, Len(inputs))
       IN <<[ins |-> SubSeq(inputs, i + 1, endIdx),
             tgs |-> [k \in 1..(endIdx - i) |-> At(targets, i + k, g)]]>>
          \o BatchesFrom(inputs, targets, batchSize, i + batchSize, g)

\* createBatches with the last, partial batch left out
createBatches_fullOnly(inputs, targets, batchSize, g) ==
  SubSeq(BatchesFrom(inputs, targets, batchSize, 0, g), 1, Len(inputs) \div batchSize)

\* NeuralNetwork::createBatches
createBatches(inputs, targets, batchSize, g) ==
  BatchesFrom(inputs, targets, batchSize, 0, g)

RECURSIVE SumLoss(_, _, _)
SumLoss(outputs, targetData, i) ==
  IF i = 0 THEN Frac(0, 1)
  ELSE FracAdd(SumLoss(outputs, targetData, i - 1),
               meanSquaredError(outputs[i], targetData[i]))

\* lines 305-316 of evaluate, p being what predictBatch did at line 303
EvaluateOutputs(p, targetData) ==
  [net |-> p.net,
   loss |-> FracDiv(SumLoss(p.outs, targetData, Len(p.outs)), Len(p.outs)),
   accuracy |-> computeAccuracy(p.outs, targetData),
   isTraining |-> p.isTraining, outputs |-> p.outs]

\* NeuralNetwork::evaluate; outputs is the local of line 303
Net_evaluate(n, inputData, targetData, wasTraining) ==
  IF Len(inputData) # Len(targetData)
  THEN [net |-> n, loss |-> Frac(0, 1), accuracy |-> Frac(0, 1),
        isTraining |-> wasTraining, outputs |-> <<>>]
  ELSE EvaluateOutputs(Net_predictBatch(n, inputData, wasTraining), targetData)

----------------------------------------------------------------------------
(* Inputs the operations are called with *)

LayerConfigs ==
  { [size |-> 2, activation |-> "ReLU", dropout_rate |-> 1,
     weight_init |-> "Xavier", name |-> "hidden", trainable |-> TRUE],
    [size |-> 1, activation |-> "None", dropout_rate |-> 0,
     weight_init |-> "Xavier", name |-> "out", trainable |-> TRUE],
    [size |-> 1, activation |-> "None", dropout_rate |-> 0,
     weight_init |-> "Xavier", name |-> "frozen", trainable |-> FALSE] }

LayerCfg(name) == CHOOSE c \in LayerConfigs : c.name = name

NetworkConfigs ==
  { [layers |-> <<>>, optimizer |-> "Adam", loss |-> "MeanSquaredError",
     learning_rate |-> 1, name |-> "Neural Network"],
    [layers |-> <<LayerCfg("frozen"), LayerCfg("hidden"), LayerCfg("out")>>,
     optimizer |-> "SGD", loss |-> "MeanSquaredError",
     learning_rate |-> 1, name |-> "small"] }

\* the networks train is run on
TrainConfigs ==
  { [layers |-> << [size |-> 1, activation |-> "None", dropout_rate |-> 0,
                    weight_init |-> "Xavier", name |-> "in", trainable |-> TRUE],
                   [size |-> 2, activation |-> "None", dropout_rate |-> 0,
                    weight_init |-> "Xavier", name |-> "out", trainable |-> TRUE] >>,
     optimizer |-> "SGD", loss |-> "MeanSquaredError",
     learning_rate |-> 1, name |-> "linear"],
    [layers |-> << [size |-> 1, activation |-> "None", dropout_rate |-> 0,
                    weight_init |-> "Xavier", name |-> "in", trainable |-> TRUE],
                   [size |-> 1, activation |-> "ReLU", dropout_rate |-> 2,
                    weight_init |-> "Xavier", name |-> "drop", trainable |-> TRUE],
                   [size |-> 2, activation |-> "None", dropout_rate |-> 0,
                    weight_init |-> "Xavier", name |-> "out", trainable |-> TRUE] >>,
     optimizer |-> "Adam", loss |-> "MeanSquaredError",
     learning_rate |-> 1, name |-> "dropout"] }

Ones(n) == [k \in 1..n |-> 1]
Zeros(n) == [k \in 1..n |-> 0]
Unit2(n) == [k \in 1..n |-> IF k = 2 THEN 1 ELSE 0]

\* sizes a well-formed sample for n has (any sizes do for an empty network)
InSize(n) == IF n.layers = <<>> THEN 1 ELSE Layer_getSize(n.layers[1])
OutSize(n) == IF n.layers = <<>> THEN 1 ELSE Layer_getSize(n.layers[Len(n.layers)])

\* the k-th sample of the data set used with network n
Sample(n, k) ==
  [in |-> IF k % 2 = 1 THEN Ones(InSize(n)) ELSE Unit2(InSize(n)),
   tg |-> IF k % 3 = 1 THEN Zeros(OutSize(n)) ELSE Ones(OutSize(n))]

\* inputs of forward/predict: two of the right size, one of a wrong size
InputsFor(n) == {Ones(InSize(n)), Unit2(InSize(n)), Ones(InSize(n) + 1)}

\* values of dist(gen) drawn by Layer::applyDropout for the units of l, in
\* halves; they matter only when the mask depends on them
LayerDraws(l, training) ==
  IF training /\ l.dropoutRate > 0 /\ l.dropoutRate < 2
  THEN [1..Len(l.neurons) -> {0, 1}]
  ELSE {[i \in 1..Len(l.neurons) |-> 0]}

DrawsFor(n, training) ==
  {u \in [1..Len(n.layers) ->
            UNION {LayerDraws(n.layers[i], training) : i \in 1..Len(n.layers)}] :
     \A i \in 1..Len(n.layers) : u[i] \in LayerDraws(n.layers[i], training)}

----------------------------------------------------------------------------
(* Actions: the sequential API.  Every call is counted in calls.  doc and  *)
(* copy show the result of the last call only when that call was the save/ *)
(* load round trip; bkTrace shows the last backward pass only.             *)

trainVars == <<tpc, tr, cbLog, stopEpoch>>
flagVars == <<isTraining, shouldStop, trainingProgress>>

NoTrain == [epochs |-> 0]

Idle == tpc = "idle"

\* The calls that compute start from weights and biases small enough for
\* every intermediate value to stay in the exactly representable range.
InDomain(n) ==
  \A i \in 1..Len(n.layers) : \A j \in 1..Len(n.layers[i].neurons) :
    LET u == n.layers[i].neurons[j]
    IN /\ -MaxAbs <= u.bias /\ u.bias <= MaxAbs
       /\ \A k \in 1..Len(u.inputWeights) :
            -MaxAbs <= u.inputWeights[k] /\ u.inputWeights[k] <= MaxAbs

Counted(name, x) ==
  /\ calls < MaxCalls
  /\ calls' = calls + 1
  /\ last' = name
  /\ arg' = x
  /\ prevPredict' = IF last = "predict" THEN <<arg, ret>> ELSE <<>>

\* a call that runs from entry to return while no predict() is in progress
\* on another thread
NoPredict == [pc |-> "idle", wasTraining |-> FALSE]

CalledWith(name, x) ==
  /\ fg = NoPredict
  /\ fg' = fg
  /\ Counted(name, x)

Called(name) == CalledWith(name, <<>>)

NoJson == doc' = <<>> /\ copy' = DefaultNet

AddLayer(c, seed) ==
  /\ Idle
  /\ Called("addLayer")
  /\ Len(net.layers) < MaxLayers
  /\ net' = Net_addLayer(net, LayerFromConfig(c), seed)
  /\ ret' = <<>> /\ bkTrace' = <<>> /\ NoJson
  /\ UNCHANGED <<trainVars, flagVars>>

RemoveLayer(index, seed) ==
  /\ Idle
  /\ Called("removeLayer")
  /\ net' = Net_removeLayer(net, index, seed)
  /\ ret' = <<>> /\ bkTrace' = <<>> /\ NoJson
  /\ UNCHANGED <<trainVars, flagVars>>

ClearLayers ==
  /\ Called("clearLayers")
  /\ net' = Net_clearLayers(net)
  /\ ret' = <<>> /\ bkTrace' = <<>> /\ NoJson
  /\ UNCHANGED <<trainVars, flagVars>>

InitializeWeights(initType, seed) ==
  /\ Idle
  /\ Called("initializeWeights")
  /\ net' = Net_initializeWeights(net, initType, seed)
  /\ ret' = <<>> /\ bkTrace' = <<>> /\ NoJson
  /\ UNCHANGED <<trainVars, flagVars>>

Reset ==
  /\ Idle
  /\ Called("reset")
  /\ net' = Net_reset(net)
  /\ isTraining' = FALSE
  /\ shouldStop' = FALSE
  /\ trainingProgress' = Frac(0, 1)
  /\ ret' = <<>> /\ bkTrace' = <<>> /\ NoJson
  /\ UNCHANGED trainVars

Forward(inputs) ==
  /\ Idle
  /\ InDomain(net)
  /\ CalledWith("forward", inputs)
  /\ \E u \in DrawsFor(net, isTraining) :
       LET f == Net_forward(net, inputs, isTraining, u)
       IN /\ net' = f.net
          /\ ret' = f.out
  /\ bkTrace' = <<>> /\ NoJson
  /\ UNCHANGED <<trainVars, flagVars>>

\* predict is also called from the progress callback, on train's thread
Predict(inputs) ==
  /\ \/ Idle
     \/ tpc = "callback" /\ tr.hasCb
  /\ InDomain(net)
  /\ CalledWith("predict", inputs)
  /\ LET p == Net_predict(net, inputs, isTraining)
     IN /\ net' = p.net
        /\ ret' = p.out
        /\ isTraining' = p.isTraining
  /\ bkTrace' = <<>> /\ NoJson
  /\ UNCHANGED <<trainVars, shouldStop, trainingProgress>>

PredictBatch ==
  /\ Idle
  /\ InDomain(net)
  /\ CalledWith("predictBatch", <<Unit2(InSize(net)), Ones(InSize(net))>>)
  /\ LET p == Net_predictBatch(net, <<Unit2(InSize(net)), Ones(InSize(net))>>, isTraining)
     IN /\ net' = p.net
        /\ ret' = p.outs
        /\ isTraining' = p.isTraining
  /\ bkTrace' = <<>> /\ NoJson
  /\ UNCHANGED <<trainVars, shouldStop, trainingProgress>>

\* samples of trainSample: two of the right sizes, one with an input too
\* long, one with a target too long, one with a target too short
SamplesFor(n) ==
  {Sample(n, 1), Sample(n, 2),
   [in |-> Ones(InSize(n) + 1), tg |-> Ones(OutSize(n))],
   [in |-> Ones(InSize(n)), tg |-> Ones(OutSize(n) + 1)],
   [in |-> Ones(InSize(n)), tg |-> Ones(OutSize(n) - 1)]}

\* A read past the end of a vector either yields some value g or ends the
\* process, which then is at no position at all (tpc = "crashed").
TrainSample(inputs, targets) ==
  /\ Idle
  /\ InDomain(net)
  /\ CalledWith("trainSample", <<inputs, targets>>)
  /\ \E u \in DrawsFor(net, isTraining), g \in JunkFor(net, inputs, targets) :
       LET t == Net_trainSample(net, inputs, targets, isTraining, u, g)
       IN \/ /\ net' = t.net
             /\ ret' = t.loss
             /\ bkTrace' = t.trace
             /\ tpc' = tpc
          \/ /\ t.oob
             /\ tpc' = "crashed"
             /\ ret' = <<>> /\ bkTrace' = <<>>
             /\ net' = net
  /\ NoJson
  /\ UNCHANGED <<tr, cbLog, stopEpoch, flagVars>>

\* evaluate(inputData, targetData); ret shows with the pair returned the
\* outputs that line 303 got from predictBatch
Evaluate(inputData, targetData) ==
  /\ Idle
  /\ InDomain(net)
  /\ CalledWith("evaluate", <<inputData, targetData>>)
  /\ \E e \in {Net_evaluate(net, inputData, targetData, isTraining)} :
       /\ net' = e.net
       /\ isTraining' = e.isTraining
       /\ ret' = [loss |-> e.loss, accuracy |-> e.accuracy, outputs |-> e.outputs]
  /\ bkTrace' = <<>> /\ NoJson
  /\ UNCHANGED <<trainVars, shouldStop, trainingProgress>>

\* the files of saveToFile and loadFromFile: one that cannot be opened, one
\* whose text does not parse, and one holding the document of a saved network
\* as it is, with a value of the wrong type under one key, or with the number
\* 1.5 (3 halves) as the dropout_rate of its second layer
Files ==
  LET j == Net_toJson(NetFromConfig(CHOOSE c \in NetworkConfigs : c.name = "small", 1))
  IN {File(FALSE, FALSE, <<>>, {}), File(TRUE, FALSE, <<>>, {})}
     \cup {File(TRUE, TRUE, j, w) : w \in {{}, {"name"}, {"optimizer_type"}, {"layers"}}}
     \cup {File(TRUE, TRUE, [j EXCEPT !.layers[2].dropout_rate = 3], {})}

SaveToFile(file) ==
  /\ Idle
  /\ CalledWith("saveToFile", file)
  /\ LET r == Net_saveToFile(net, file)
     IN /\ ret' = [ok |-> r.ok, opens |-> r.opens, parses |-> r.parses]
        /\ doc' = r.written
  /\ copy' = DefaultNet
  /\ bkTrace' = <<>>
  /\ UNCHANGED <<net, trainVars, flagVars>>

LoadFromFile(file) ==
  /\ Idle
  /\ CalledWith("loadFromFile", file)
  /\ LET r == Net_loadFromFile(net, file)
     IN /\ net' = r.net
        /\ ret' = [ok |-> r.ok, opens |-> r.opens, parses |-> r.parses]
  /\ bkTrace' = <<>> /\ NoJson
  /\ UNCHANGED <<trainVars, flagVars>>

\* auto json = n.toJson(); NeuralNetwork m; m.fromJson(json);
JsonRoundTrip ==
  /\ Idle
  /\ Called("fromJson")
  /\ doc' = Net_toJson(net)
  /\ copy' = Net_fromJson(DefaultNet, Net_toJson(net))
  /\ ret' = <<>> /\ bkTrace' = <<>>
  /\ UNCHANGED <<net, trainVars, flagVars>>

----------------------------------------------------------------------------
(* Actions: train, one action per step of the thread that runs it *)

DataSet(n, size) == [k \in 1..size |-> Sample(n, k)]

\* train(inputData, targetData, epochs, batchSize, validation, callback) is
\* called; nothing of the body has run yet
TrainCall(size, targetCount, epochs, batchSize, hasVal, hasCb) ==
  /\ Idle
  /\ InDomain(net)
  /\ size * epochs <= MaxTrainSteps
  /\ tr' = [epochs |-> epochs, batchSize |-> batchSize,
            hasVal |-> hasVal, hasCb |-> hasCb,
            inputData |-> [k \in 1..size |-> Sample(net, k).in],
            targetData |-> [k \in 1..targetCount |-> Sample(net, k).tg],
            inputs |-> <<>>, targets |-> <<>>, epoch |-> 0,
            batches |-> <<>>, b |-> 1, s |-> 1,
            outputs |-> <<>>, wasTraining |-> FALSE, p |-> 1, predictions |-> <<>>,
            totalLoss |-> Frac(0, 1), epochLoss |-> Frac(0, 1),
            samplesTrained |-> <<>>,
            history |-> [trainLoss |-> <<>>, trainAccuracy |-> <<>>,
                         valLoss |-> <<>>, valAccuracy |-> <<>>]]
  /\ tpc' = "start"
  /\ cbLog' = <<>>
  /\ stopEpoch' = -1
  /\ Called("train")
  /\ ret' = <<>> /\ bkTrace' = <<>> /\ NoJson
  /\ UNCHANGED <<net, flagVars>>

\* the vectors that createBatches copies from past the end of targets, in
\* the runs explored; a call that copies in bounds only is run with one
JunkTargets(n, inputs, targets) ==
  IF Len(targets) < Len(inputs) THEN {<<>>, Ones(OutSize(n))} ELSE {<<>>}

\* lines 232-241 without the store to shouldStop_ of line 234
TrainStart_keepsStop ==
  /\ tpc = "start"
  /\ isTraining' = TRUE
  /\ shouldStop' = shouldStop
  /\ tr' = [tr EXCEPT !.inputs = tr.inputData, !.targets = tr.targetData]
  /\ tpc' = "loop"
  /\ UNCHANGED <<net, trainingProgress, cbLog, stopEpoch, last, ret, bkTrace,
                 doc, copy, calls, arg, prevPredict, fg>>

\* lines 232-241
TrainStart ==
  /\ tpc = "start"
  /\ isTraining' = TRUE
  /\ shouldStop' = FALSE
  /\ tr' = [tr EXCEPT !.inputs = tr.inputData, !.targets = tr.targetData]
  /\ tpc' = "loop"
  /\ UNCHANGED <<net, trainingProgress, cbLog, stopEpoch, last, ret, bkTrace,
                 doc, copy, calls, arg, prevPredict, fg>>

\* the loop of line 243 without the test of shouldStop_
TrainEpochBegin_ignoresStop ==
  /\ tpc = "loop"
  /\ tr.epoch < tr.epochs
  /\ \E indices \in IndexPermutations(Len(tr.inputs)),
        g \in JunkTargets(net, tr.inputs, tr.targets) :
       LET sh == shuffleData(tr.inputs, tr.targets, indices)
       IN \/ /\ tr' = [tr EXCEPT
                       !.inputs = sh.inputs, !.targets = sh.targets,
                       !.batches = createBatches(sh.inputs, sh.targets, tr.batchSize, g),
                       !.b = 1, !.s = 1,
                       !.totalLoss = Frac(0, 1), !.epochLoss = Frac(0, 1),
                       !.samplesTrained = Append(@, 0)]
             /\ tpc' = "batch"
          \/ /\ Len(tr.targets) < Len(tr.inputs)
             /\ tr' = tr
             /\ tpc' = "crashed"
  /\ UNCHANGED <<net, flagVars, cbLog, stopEpoch, last, ret, bkTrace, doc, copy, calls, arg, prevPredict, fg>>

\* line 243 (condition true), lines 245-250.  With batchSize = 0 and data
\* that is not empty the loop of createBatches (line 540) never reaches its
\* end, i += batchSize leaving i at 0: train stays inside createBatches
TrainEpochBegin ==
  /\ tpc = "loop"
  /\ tr.epoch < tr.epochs /\ ~shouldStop
  /\ \E indices \in IndexPermutations(Len(tr.inputs)),
        g \in JunkTargets(net, tr.inputs, tr.targets) :
       LET sh == shuffleData(tr.inputs, tr.targets, indices)
       IN \/ /\ tr.batchSize > 0 \/ tr.inputs = <<>>
             /\ tr' = [tr EXCEPT
                       !.inputs = sh.inputs, !.targets = sh.targets,
                       !.batches = createBatches(sh.inputs, sh.targets, tr.batchSize, g),
                       !.b = 1, !.s = 1,
                       !.totalLoss = Frac(0, 1), !.epochLoss = Frac(0, 1),
                       !.samplesTrained = Append(@, 0)]
             /\ tpc' = "batch"
          \/ /\ tr.batchSize = 0 /\ tr.inputs # <<>>
             /\ tr' = [tr EXCEPT
                       !.inputs = sh.inputs, !.targets = sh.targets,
                       !.batches = <<>>]
             /\ tpc' = "createBatches"
          \/ /\ Len(tr.targets) < Len(tr.inputs)
             /\ tr' = tr
             /\ tpc' = "crashed"
  /\ UNCHANGED <<net, flagVars, cbLog, stopEpoch, last, ret, bkTrace, doc, copy, calls, arg, prevPredict, fg>>

\* One pass of the loop of createBatches (lines 540-547) with batchSize = 0:
\* endIdx = min(i + 0, size) = i = 0, the batch of the empty ranges
\* [begin, begin) is appended and i stays 0.  The memory holds MaxBatches
\* batches; the emplace_back after that throws std::bad_alloc, which train
\* does not catch: it leaves train without a history and with isTraining_
\* still set.
TrainCreateBatches ==
  /\ tpc = "createBatches"
  /\ IF Len(tr.batches) < MaxBatches
     THEN /\ tr' = [tr EXCEPT !.batches = Append(@, [ins |-> <<>>, tgs |-> <<>>])]
          /\ tpc' = tpc
     ELSE /\ tr' = tr
          /\ tpc' = "threw"
  /\ UNCHANGED <<net, flagVars, cbLog, stopEpoch, last, ret, bkTrace, doc, copy, calls, arg, prevPredict, fg>>

\* lines 251-253: one trainSample of trainBatch (lines 215-217); after the
\* last sample of a batch the batch average is added to epochLoss
TrainSampleStep ==
  /\ tpc = "batch"
  /\ tr.b <= Len(tr.batches)
  /\ LET batch == tr.batches[tr.b]
     IN IF Len(batch.ins) # Len(batch.tgs)
        THEN /\ tr' = [tr EXCEPT !.b = @ + 1, !.s = 1, !.totalLoss = Frac(0, 1)]
             /\ UNCHANGED <<net, bkTrace, tpc>>
        ELSE \E u \in DrawsFor(net, isTraining),
                  g \in JunkFor(net, batch.ins[tr.s], batch.tgs[tr.s]) :
               LET t == Net_trainSample(net, batch.ins[tr.s], batch.tgs[tr.s],
                                        isTraining, u, g)
                   total == FracAdd(tr.totalLoss, t.loss)
                   lastOfBatch == tr.s = Len(batch.ins)
               IN \/ /\ net' = t.net
                     /\ bkTrace' = t.trace
                     /\ tr' = [tr EXCEPT
                          !.s = IF lastOfBatch THEN 1 ELSE @ + 1,
                          !.b = IF lastOfBatch THEN @ + 1 ELSE @,
                          !.totalLoss = IF lastOfBatch THEN Frac(0, 1) ELSE total,
                          !.epochLoss = IF lastOfBatch
                                        THEN FracAdd(@, FracDiv(total, Len(batch.ins)))
                                        ELSE @,
                          !.samplesTrained[Len(tr.samplesTrained)] = @ + 1]
                     /\ tpc' = tpc
                  \/ /\ t.oob
                     /\ tpc' = "crashed"
                     /\ UNCHANGED <<net, bkTrace, tr>>
  /\ last' = "trainSample"
  /\ ret' = <<>>
  /\ UNCHANGED <<flagVars, cbLog, stopEpoch, doc, copy, calls, arg, prevPredict, fg>>

\* lines 254-261
TrainAccuracy ==
  /\ tpc = "batch"
  /\ tr.b > Len(tr.batches)
  /\ LET p == Net_predictBatch(net, tr.inputs, isTraining)
     IN /\ net' = p.net
        /\ isTraining' = p.isTraining
        /\ tr' = [tr EXCEPT
             !.epochLoss = FracDiv(@, Len(tr.batches)),
             !.history.trainLoss = Append(@, FracDiv(tr.epochLoss, Len(tr.batches))),
             !.history.trainAccuracy = Append(@, computeAccuracy(p.outs, tr.targets))]
  /\ tpc' = "validate"
  /\ last' = "predictBatch"
  /\ ret' = <<>>
  /\ UNCHANGED <<shouldStop, trainingProgress, cbLog, stopEpoch, bkTrace, doc, copy, calls, arg, prevPredict, fg>>

\* lines 264-272; the validation set is the first sample of the data set
TrainValidate ==
  /\ tpc = "validate"
  /\ IF tr.hasVal
     THEN LET e == Net_evaluate(net, <<Sample(net, 1).in>>, <<Sample(net, 1).tg>>,
                                isTraining)
          IN /\ net' = e.net
             /\ isTraining' = e.isTraining
             /\ tr' = [tr EXCEPT !.history.valLoss = Append(@, e.loss),
                                 !.history.valAccuracy = Append(@, e.accuracy)]
             /\ last' = "evaluate"
     ELSE UNCHANGED <<net, isTraining, tr, last>>
  /\ tpc' = "progress"
  /\ UNCHANGED <<shouldStop, trainingProgress, cbLog, stopEpoch, ret, bkTrace,
                 doc, copy, calls, arg, prevPredict, fg>>

\* line 275
TrainProgress ==
  /\ tpc = "progress"
  /\ trainingProgress' = Frac(tr.epoch + 1, tr.epochs)
  /\ tpc' = "callback"
  /\ UNCHANGED <<net, isTraining, shouldStop, tr, cbLog, stopEpoch, last, ret,
                 bkTrace, doc, copy, calls, arg, prevPredict, fg>>

\* lines 278-286 and the ++epoch of line 243
TrainCallback ==
  /\ tpc = "callback"
  /\ cbLog' = IF tr.hasCb THEN Append(cbLog, tr.epoch) ELSE cbLog
  /\ tr' = [tr EXCEPT !.epoch = @ + 1]
  /\ tpc' = "loop"
  /\ UNCHANGED <<net, flagVars, stopEpoch, last, ret, bkTrace, doc, copy, calls, arg, prevPredict, fg>>

\* the return of train without the store of line 288
TrainReturn_keepsFlag ==
  /\ tpc = "loop"
  /\ ~(tr.epoch < tr.epochs /\ ~shouldStop)
  /\ isTraining' = isTraining
  /\ trainingProgress' = Frac(1, 1)
  /\ tpc' = "idle"
  /\ last' = "trainReturn"
  /\ ret' = tr.history
  /\ UNCHANGED <<net, shouldStop, tr, cbLog, stopEpoch, bkTrace, doc, copy, calls, arg, prevPredict, fg>>

\* line 243 (condition false), lines 288-292
TrainReturn ==
  /\ tpc = "loop"
  /\ ~(tr.epoch < tr.epochs /\ ~shouldStop)
  /\ isTraining' = FALSE
  /\ trainingProgress' = Frac(1, 1)
  /\ tpc' = "idle"
  /\ last' = "trainReturn"
  /\ ret' = tr.history
  /\ UNCHANGED <<net, shouldStop, tr, cbLog, stopEpoch, bkTrace, doc, copy, calls, arg, prevPredict, fg>>

\* stopTraining() called, and returned, while no train call is running
StopTrainingBefore ==
  /\ Idle
  /\ Called("stopTraining")
  /\ shouldStop' = TRUE
  /\ ret' = <<>> /\ bkTrace' = <<>> /\ NoJson
  /\ UNCHANGED <<net, isTraining, trainingProgress, trainVars>>

\* the positions of train inside the body of the epoch loop
InEpoch == tpc \in {"batch", "validate", "progress", "callback"}

\* stopTraining(), from another thread or from the progress callback.  A
\* store to a flag that is already set changes nothing.  stopEpoch records
\* the epoch train is executing when the flag is set.
StopTraining ==
  /\ ~shouldStop
  /\ shouldStop' = TRUE
  /\ stopEpoch' = IF InEpoch THEN tr.epoch ELSE stopEpoch
  /\ UNCHANGED <<net, isTraining, trainingProgress, tpc, tr, cbLog, last, ret,
                 bkTrace, doc, copy, calls, arg, prevPredict, fg>>

TrainSteps ==
  \/ TrainStart
  \/ TrainEpochBegin
  \/ TrainSampleStep
  \/ TrainAccuracy
  \/ TrainValidate
  \/ TrainProgress
  \/ TrainCallback
  \/ TrainReturn

----------------------------------------------------------------------------
(* Actions: train beside a second thread.  trainSample and predictBatch    *)
(* are taken apart at the points where the other thread can run: between   *)
(* the forward pass and the backward pass of a sample, and between the     *)
(* stores to isTraining_ of a predict call.  A pass itself is one step and *)
(* reads isTraining_ once; passes of the two threads that overlap in time  *)
(* are unsynchronised accesses to the same units, and the runs in which    *)
(* one pass ends before the next begins are among their outcomes.          *)

\* trainSample, line 199, of the sample train is at (lines 251-253, 215-217)
TrainSampleForward ==
  /\ tpc = "batch"
  /\ tr.b <= Len(tr.batches)
  /\ Len(tr.batches[tr.b].ins) = Len(tr.batches[tr.b].tgs)
  /\ \E u \in DrawsFor(net, isTraining) :
       LET f == Net_forward(net, tr.batches[tr.b].ins[tr.s], isTraining, u)
       IN /\ net' = f.net
          /\ tr' = [tr EXCEPT !.outputs = f.out]
  /\ tpc' = "backward"
  /\ last' = "trainSample.forward"
  /\ ret' = <<>>
  /\ UNCHANGED <<flagVars, cbLog, stopEpoch, bkTrace, doc, copy, calls, arg, prevPredict, fg>>

\* trainSample, lines 200-201, and the bookkeeping of trainBatch
TrainSampleBackward ==
  /\ tpc = "backward"
  /\ \E g \in JunkFor(net, tr.batches[tr.b].ins[tr.s], tr.batches[tr.b].tgs[tr.s]) :
     LET batch == tr.batches[tr.b]
         t == Net_backward(net, batch.tgs[tr.s], tr.outputs, g)
         total == FracAdd(tr.totalLoss, t.loss)
         lastOfBatch == tr.s = Len(batch.ins)
     IN /\ net' = t.net
        /\ bkTrace' = t.trace
        /\ tr' = [tr EXCEPT
             !.s = IF lastOfBatch THEN 1 ELSE @ + 1,
             !.b = IF lastOfBatch THEN @ + 1 ELSE @,
             !.totalLoss = IF lastOfBatch THEN Frac(0, 1) ELSE total,
             !.epochLoss = IF lastOfBatch
                           THEN FracAdd(@, FracDiv(total, Len(batch.ins)))
                           ELSE @,
             !.samplesTrained[Len(tr.samplesTrained)] = @ + 1]
  /\ tpc' = "batch"
  /\ last' = "trainSample"
  /\ ret' = <<>>
  /\ UNCHANGED <<flagVars, cbLog, stopEpoch, doc, copy, calls, arg, prevPredict, fg>>

\* line 258, predictBatch: lines 321-322 of the predict of input p
TrainPredictEnter ==
  /\ tpc = "batch"
  /\ tr.b > Len(tr.batches)
  /\ tr.p <= Len(tr.inputs)
  /\ tr' = [tr EXCEPT !.wasTraining = isTraining]
  /\ isTraining' = FALSE
  /\ tpc' = "predict"
  /\ UNCHANGED <<net, shouldStop, trainingProgress, cbLog, stopEpoch, last, ret,
                 bkTrace, doc, copy, calls, arg, prevPredict, fg>>

\* lines 323-327 of the predict of input p
TrainPredictReturn ==
  /\ tpc = "predict"
  /\ \E u \in DrawsFor(net, isTraining) :
       LET f == Net_forward(net, tr.inputs[tr.p], isTraining, u)
       IN /\ net' = f.net
          /\ tr' = [tr EXCEPT !.predictions = Append(@, f.out), !.p = @ + 1]
  /\ isTraining' = tr.wasTraining
  /\ tpc' = "batch"
  /\ last' = "predictBatch"
  /\ ret' = <<>>
  /\ UNCHANGED <<shouldStop, trainingProgress, cbLog, stopEpoch, bkTrace, doc, copy,
                 calls, arg, prevPredict, fg>>

\* lines 254-261 once predictBatch has returned
TrainAccuracyRecord ==
  /\ tpc = "batch"
  /\ tr.b > Len(tr.batches)
  /\ tr.p > Len(tr.inputs)
  /\ tr' = [tr EXCEPT
       !.epochLoss = FracDiv(@, Len(tr.batches)),
       !.history.trainLoss = Append(@, FracDiv(tr.epochLoss, Len(tr.batches))),
       !.history.trainAccuracy = Append(@, computeAccuracy(tr.predictions, tr.targets)),
       !.p = 1, !.predictions = <<>>]
  /\ tpc' = "validate"
  /\ UNCHANGED <<net, flagVars, cbLog, stopEpoch, last, ret, bkTrace, doc, copy,
                 calls, arg, prevPredict, fg>>

\* predict(inputs) on the second thread, lines 321-322
PredictEnter(inputs) ==
  /\ fg = NoPredict
  /\ InDomain(net)
  /\ Counted("predict.enter", inputs)
  /\ fg' = [pc |-> "forward", wasTraining |-> isTraining]
  /\ isTraining' = FALSE
  /\ ret' = <<>>
  /\ UNCHANGED <<net, shouldStop, trainingProgress, trainVars, bkTrace, doc, copy>>

\* predict(inputs) on the second thread, lines 323-327
PredictReturn ==
  /\ fg.pc = "forward"
  /\ \E u \in DrawsFor(net, isTraining) :
       LET f == Net_forward(net, arg, isTraining, u)
       IN /\ net' = f.net
          /\ ret' = f.out
  /\ isTraining' = fg.wasTraining
  /\ fg' = NoPredict
  /\ last' = "predict.return"
  /\ UNCHANGED <<shouldStop, trainingProgress, trainVars, bkTrace, doc, copy,
                 calls, arg, prevPredict>>

\* toJson() on the second thread: networkMutex_ is held from entry to return
ToJson ==
  /\ Called("toJson")
  /\ doc' = Net_toJson(net)
  /\ copy' = DefaultNet
  /\ ret' = <<>>
  /\ UNCHANGED <<net, flagVars, trainVars, bkTrace>>

\* ~NeuralNetwork() on the second thread, line 59: stopTraining()
DestructorEnter ==
  /\ fg = NoPredict
  /\ fg' = [pc |-> "wait", wasTraining |-> FALSE]
  /\ shouldStop' = TRUE
  /\ stopEpoch' = IF ~shouldStop /\ InEpoch THEN tr.epoch ELSE stopEpoch
  /\ UNCHANGED <<net, isTraining, trainingProgress, tpc, tr, cbLog, last, ret,
                 bkTrace, doc, copy, calls, arg, prevPredict>>

\* ~NeuralNetwork(), lines 61-64: a pass of the wait loop reads isTraining_
\* as false and the destructor returns; a pass that reads true sleeps and
\* changes nothing
DestructorReturn ==
  /\ fg.pc = "wait"
  /\ ~isTraining
  /\ fg' = [pc |-> "destroyed", wasTraining |-> FALSE]
  /\ UNCHANGED <<net, flagVars, trainVars, last, ret, bkTrace, doc, copy,
                 calls, arg, prevPredict>>

TrainStepsApart ==
  \/ TrainStart
  \/ TrainEpochBegin
  \/ TrainSampleForward
  \/ TrainSampleBackward
  \/ TrainPredictEnter
  \/ TrainPredictReturn
  \/ TrainAccuracyRecord
  \/ TrainValidate
  \/ TrainProgress
  \/ TrainCallback
  \/ TrainReturn

----------------------------------------------------------------------------
(* Specifications *)

InitWith(configs) ==
  /\ \E config \in configs, seed \in Seeds : net = NetFromConfig(config, seed)
  /\ isTraining = FALSE
  /\ shouldStop = FALSE
  /\ trainingProgress = Frac(0, 1)
  /\ tpc = "idle"
  /\ tr = NoTrain
  /\ cbLog = <<>>
  /\ last = "construct"
  /\ ret = <<>>
  /\ bkTrace = <<>>
  /\ stopEpoch = -1
  /\ calls = 0
  /\ arg = <<>>
  /\ prevPredict = <<>>
  /\ doc = <<>>
  /\ copy = DefaultNet
  /\ fg = NoPredict

\* The sequential API on a network under construction
Init == InitWith(NetworkConfigs)

Next ==
  \/ \E c \in LayerConfigs, seed \in Seeds : AddLayer(c, seed)
  \/ \E index \in 0..MaxLayers, seed \in Seeds : RemoveLayer(index, seed)
  \/ Idle /\ ClearLayers
  \/ \E t \in {"Random", "Xavier", "He", "Zero", "One"}, seed \in Seeds :
       InitializeWeights(t, seed)
  \/ Reset
  \/ \E x \in InputsFor(net) : Forward(x)
  \/ \E x \in InputsFor(net) : Predict(x)
  \/ PredictBatch
  \/ \E k \in 1..2 : TrainSample(Sample(net, k).in, Sample(net, k).tg)
  \/ JsonRoundTrip

Spec == Init /\ [][Next]_vars

\* One train call with a concurrent stopTraining
InitTrain == InitWith(TrainConfigs)

NextTrain ==
  \/ \E size \in 0..MaxSamples, epochs \in 0..MaxEpochs, batchSize \in 1..MaxBatchSize,
        hasVal \in BOOLEAN, hasCb \in BOOLEAN :
       tr = NoTrain /\ TrainCall(size, size, epochs, batchSize, hasVal, hasCb)
  \/ TrainSteps
  \/ StopTraining
  \/ \E x \in {Ones(InSize(net)), Ones(InSize(net) + 1)} :
       tpc = "callback" /\ Predict(x)

SpecTrain == InitTrain /\ [][NextTrain]_vars

\* One train call on a background thread beside the calls of a foreground
\* thread: predict, and the lock-protected toJson and clearLayers
InitConc == InitWith(TrainConfigs)

NextConc ==
  \/ tr = NoTrain /\ TrainCall(1, 1, 1, 1, FALSE, FALSE)
  \/ TrainStepsApart
  \/ PredictEnter(Ones(InSize(net)))
  \/ PredictReturn
  \/ ToJson
  \/ ClearLayers

SpecConc == InitConc /\ [][NextConc]_vars

\* The calls that train, given vectors and data sets of the right and of
\* the wrong lengths, the calls that save and load, and evaluate, on an empty
\* network and on networks of one and of two outputs
InitErr == InitWith(NetworkConfigs \cup {c \in TrainConfigs : c.name = "linear"})

NextErr ==
  \/ /\ calls < MaxErrCalls
     /\ \/ \E x \in SamplesFor(net) : TrainSample(x.in, x.tg)
        \/ \E size \in 1..2 :
             Evaluate([k \in 1..size |-> Sample(net, k).in],
                      [k \in 1..size |-> Sample(net, k).tg])
        \/ \E file \in Files : SaveToFile(file)
        \/ \E file \in Files : LoadFromFile(file)
        \/ \E targetCount \in 0..2 : TrainCall(1, targetCount, 1, 1, FALSE, TRUE)
  \/ TrainSteps

SpecErr == InitErr /\ [][NextErr]_vars

\* A network whose third layer is not trainable, between two trainable
\* layers, given to the calls that train; a train call is followed for as
\* long as its weights and biases stay in the exactly representable range
FrozenConfigs ==
  { [layers |-> << [size |-> 1, activation |-> "None", dropout_rate |-> 0,
                    weight_init |-> "Xavier", name |-> "in", trainable |-> TRUE],
                   [size |-> 1, activation |-> "None", dropout_rate |-> 0,
                    weight_init |-> "Xavier", name |-> "pre", trainable |-> TRUE],
                   LayerCfg("frozen"),
                   LayerCfg("out") >>,
     optimizer |-> "SGD", loss |-> "MeanSquaredError",
     learning_rate |-> 1, name |-> "deep"] }

InitFrozen == InitWith(FrozenConfigs)

NextFrozen ==
  \/ \E k \in 1..2 : TrainSample(Sample(net, k).in, Sample(net, k).tg)
  \/ \E size \in 1..2, epochs \in 1..2, batchSize \in 1..MaxBatchSize,
        hasVal \in BOOLEAN, hasCb \in BOOLEAN :
       TrainCall(size, size, epochs, batchSize, hasVal, hasCb)
  \/ InDomain(net) /\ TrainSteps

SpecFrozen == InitFrozen /\ [][NextFrozen]_vars

\* The positions at which the thread that runs train has a next step
Running ==
  {"start", "loop", "createBatches", "batch", "backward", "predict",
   "validate", "progress", "callback"}

\* The thread that runs train goes from one position to another one, or
\* leaves train.  At a position it takes finitely many steps, one per sample
\* or per batch built, so a thread that keeps being scheduled goes on to
\* another position.
TrainRuns ==
  /\ tpc \in Running
  /\ tpc' \in Running \cup {"idle", "threw", "crashed"}

\* One train call with any batch size, 0 included, run by a thread that is
\* scheduled again and again until train has returned
InitTerm == InitWith({c \in TrainConfigs : c.name = "linear"})

NextTerm ==
  \/ \E size \in 0..2, epochs \in 0..2, batchSize \in 0..MaxBatchSize,
        hasVal \in BOOLEAN, hasCb \in BOOLEAN :
       tr = NoTrain /\ TrainCall(size, size, epochs, batchSize, hasVal, hasCb)
  \/ TrainSteps
  \/ TrainCreateBatches

SpecTerm == InitTerm /\ [][NextTerm]_vars /\ WF_tpc(TrainRuns)

\* One train call on a background thread; the other thread calls predict
\* and then destroys the network.  The thread that runs train keeps being
\* scheduled, and so does the wait loop of the destructor.
InitDtor == InitWith({c \in TrainConfigs : c.name = "linear"})

NextDtor ==
  \/ tr = NoTrain /\ TrainCall(1, 1, 1, 1, FALSE, FALSE)
  \/ TrainStepsApart
  \/ PredictEnter(Ones(InSize(net)))
  \/ PredictReturn
  \/ DestructorEnter
  \/ DestructorReturn

SpecDtor ==
  InitDtor /\ [][NextDtor]_vars /\ WF_tpc(TrainRuns) /\ WF_fg(DestructorReturn)

\* One train call, before which stopTraining may have been called and after
\* whose entry it is not
InitStop == InitWith({c \in TrainConfigs : c.name = "linear"})

NextStop ==
  \/ tr = NoTrain /\ StopTrainingBefore
  \/ \E size \in 1..2, epochs \in 1..2, batchSize \in 1..MaxBatchSize,
        hasVal \in BOOLEAN, hasCb \in BOOLEAN :
       tr = NoTrain /\ TrainCall(size, size, epochs, batchSize, hasVal, hasCb)
  \/ TrainSteps

SpecStop == InitStop /\ [][NextStop]_vars

----------------------------------------------------------------------------
(* Properties of train *)

\* train has returned and no later call has run
Returned == tpc = "idle" /\ last = "trainReturn"

\* the epochs train has started: one entry of samplesTrained per epoch
EpochsStarted == Len(tr.samplesTrained)

\* C1: a train call of N epochs during which the stop flag was never set
\* (the flag is still clear when train returns) has run exactly N epochs,
\* has invoked the callback, if there is one, N times with 0, 1, ..., N-1 in
\* this order, returns a history whose trainLoss and trainAccuracy have N
\* entries each, and leaves trainingProgress = 1 and isTraining = false.
C1_FullRun ==
  (Returned /\ ~shouldStop) =>
    /\ EpochsStarted = tr.epochs
    /\ tr.hasCb => cbLog = [e \in 1..tr.epochs |-> e - 1]
    /\ Len(ret.trainLoss) = tr.epochs
    /\ Len(ret.trainAccuracy) = tr.epochs
    /\ FracEq(trainingProgress, Frac(1, 1))
    /\ ~isTraining

C1_FullRun_Witness ==
  /\ Returned /\ ~shouldStop
  /\ tr.epochs = MaxEpochs /\ tr.hasCb
  /\ Len(cbLog) = MaxEpochs /\ Len(tr.inputData) >= 1

\* C2: once stopTraining() has been called while train executes epoch k, the
\* flag stays set for the rest of the call, so the loop condition fails at
\* the next boundary and no epoch after k is started; when train has
\* returned, epoch k has trained every sample of the data set, has appended
\* its history entry and has invoked the callback.
C2_StopAtEpochBoundary ==
  stopEpoch >= 0 =>
    /\ EpochsStarted <= stopEpoch + 1
    /\ tpc # "idle" => shouldStop
    /\ Returned =>
         /\ EpochsStarted = stopEpoch + 1
         /\ tr.samplesTrained[stopEpoch + 1] = Len(tr.inputData)
         /\ Len(ret.trainLoss) = stopEpoch + 1
         /\ Len(ret.trainAccuracy) = stopEpoch + 1
         /\ tr.hasCb => cbLog = [e \in 1..(stopEpoch + 1) |-> e - 1]

C2_StopAtEpochBoundary_Witness ==
  /\ Returned /\ stopEpoch = 0 /\ tr.epochs >= 2
  /\ Len(tr.inputData) = 2 /\ tr.hasCb /\ cbLog = <<0>>

\* C3: when stopTraining() has been called during epoch k of a run of N
\* epochs with k + 1 < N, train returns with trainingProgress = (k + 1) / N,
\* the value the end of epoch k gave it, and not with 1.
C3_ProgressHaltsAfterStop ==
  (Returned /\ stopEpoch >= 0 /\ stopEpoch + 1 < tr.epochs) =>
    /\ FracEq(trainingProgress, Frac(stopEpoch + 1, tr.epochs))
    /\ ~FracEq(trainingProgress, Frac(1, 1))

RECURSIVE Concat(_, _)
\* the samples of the first k batches, in order
Concat(batches, k) ==
  IF k = 0 THEN [ins |-> <<>>, tgs |-> <<>>]
  ELSE LET c == Concat(batches, k - 1)
       IN [ins |-> c.ins \o batches[k].ins, tgs |-> c.tgs \o batches[k].tgs]

\* C4: the batches made of the N shuffled samples with batch size B are
\* ceil(N / B) batches, each with between 1 and B samples and all but the
\* last with exactly B, each with as many targets as inputs, and their
\* inputs and targets concatenated in order are the shuffled inputs and
\* targets.
C4_BatchesPartition ==
  tpc = "batch" =>
    LET N == Len(tr.inputs)
        B == tr.batchSize
        bs == tr.batches
    IN /\ Len(bs) = (N + B - 1) \div B
       /\ \A b \in 1..Len(bs) :
            /\ Len(bs[b].ins) >= 1 /\ Len(bs[b].ins) <= B
            /\ b < Len(bs) => Len(bs[b].ins) = B
            /\ Len(bs[b].tgs) = Len(bs[b].ins)
       /\ Concat(bs, Len(bs)).ins = tr.inputs
       /\ Concat(bs, Len(bs)).tgs = tr.targets

C4_BatchesPartition_Witness ==
  /\ tpc = "batch" /\ Len(tr.inputs) = 3 /\ tr.batchSize = 2
  /\ Len(tr.batches) = 2 /\ Len(tr.batches[2].ins) = 1
  /\ tr.inputs # tr.inputData

----------------------------------------------------------------------------
(* Properties of backward *)

Weights(ls) ==
  [i \in 1..Len(ls) |-> [j \in 1..Len(ls[i].neurons) |-> ls[i].neurons[j].inputWeights]]
Biases(ls) ==
  [i \in 1..Len(ls) |-> [j \in 1..Len(ls[i].neurons) |-> ls[i].neurons[j].bias]]
Activations(ls) ==
  [i \in 1..Len(ls) |-> [j \in 1..Len(ls[i].neurons) |-> ls[i].neurons[j].activation]]

\* C5: in the steps of one backward call, no step changes an activation;
\* a step that computes deltas comes after no update and finds every weight
\* and bias as backward found them, and the deltas it gives hidden layer i
\* are the sums over layer i+1 of delta times the weight backward found,
\* times the activation derivative; the update of a trainable layer i
\* subtracts learningRate * delta * (the activation layer i-1 held when
\* backward was entered) from each weight backward found, and
\* learningRate * delta from each bias.
C5_DeltasBeforeUpdates ==
  bkTrace # <<>> =>
    LET entry == bkTrace[1].layers
        lr == net.learningRate
    IN \A p \in 2..Len(bkTrace) :
         LET e == bkTrace[p]
             i == e.layer
             units == 1..Len(entry[i].neurons)
         IN /\ Activations(e.layers) = Activations(entry)
            /\ e.op = "delta" =>
                 /\ \A q \in 2..(p - 1) : bkTrace[q].op = "delta"
                 /\ Weights(e.layers) = Weights(entry)
                 /\ Biases(e.layers) = Biases(entry)
                 /\ i < Len(entry) =>
                      \A j \in units :
                        e.layers[i].neurons[j].delta =
                          SumTo([m \in 1..Len(entry[i + 1].neurons) |->
                                   e.layers[i + 1].neurons[m].delta
                                     * entry[i + 1].neurons[m].inputWeights[j]],
                                Len(entry[i + 1].neurons))
                          * Neuron_computeActivationDerivative(
                              entry[i].neurons[j], entry[i].activationType)
            /\ (e.op = "update" /\ entry[i].trainable) =>
                 \A j \in units :
                   /\ e.layers[i].neurons[j].bias =
                        entry[i].neurons[j].bias - lr * e.layers[i].neurons[j].delta
                   /\ \A k \in 1..Len(entry[i - 1].neurons) :
                        e.layers[i].neurons[j].inputWeights[k] =
                          entry[i].neurons[j].inputWeights[k]
                            - lr * e.layers[i].neurons[j].delta
                                 * entry[i - 1].neurons[k].activation

C5_DeltasBeforeUpdates_Witness ==
  /\ last = "trainSample" /\ Len(bkTrace) = 5
  /\ \E j \in 1..Len(bkTrace[3].layers[2].neurons) :
       bkTrace[3].layers[2].neurons[j].delta # 0
  /\ Weights(bkTrace[5].layers)[3] # Weights(bkTrace[1].layers)[3]
  /\ Weights(bkTrace[5].layers)[2] # Weights(bkTrace[1].layers)[2]

----------------------------------------------------------------------------
(* Properties of the structure, of persistence and of inference *)

\* C6: in every state reached from a network built from a NetworkConfig by
\* addLayer, removeLayer, clearLayers, initializeWeights, reset, trainSample
\* and train (whose steps are those of trainBatch), every unit of every
\* layer but the first has as many incoming weights as the layer before it
\* has units.
C6_WeightDimension ==
  \A i \in 2..Len(net.layers) : \A j \in 1..Len(net.layers[i].neurons) :
    Len(net.layers[i].neurons[j].inputWeights) = Len(net.layers[i - 1].neurons)

\* removeLayer(1) has taken the two-unit layer out of "small": the layer
\* that followed it now follows a layer of one unit
C6_WeightDimension_Witness ==
  /\ last = "removeLayer" /\ net.name = "small" /\ Len(net.layers) = 2
  /\ net.layers[1].name = "frozen" /\ net.layers[2].name = "out"
  /\ Len(net.layers[2].neurons[1].inputWeights) = 1

\* C7: after m.fromJson(n.toJson()) on a freshly constructed m, m has the
\* name, learning rate, loss tag, optimizer tag and number of layers of n,
\* every layer of m has the size, activation tag, dropout rate and
\* trainable flag of the same layer of n, every unit the bias and the
\* incoming weights of the same unit of n, and m.toJson() is n.toJson().
C7_JsonRoundTrip ==
  last = "fromJson" =>
    /\ copy.name = net.name
    /\ copy.learningRate = net.learningRate
    /\ copy.lossType = net.lossType
    /\ copy.optimizerType = net.optimizerType
    /\ Len(copy.layers) = Len(net.layers)
    /\ \A i \in 1..Len(net.layers) :
         /\ Layer_getSize(copy.layers[i]) = Layer_getSize(net.layers[i])
         /\ copy.layers[i].activationType = net.layers[i].activationType
         /\ copy.layers[i].dropoutRate = net.layers[i].dropoutRate
         /\ copy.layers[i].trainable = net.layers[i].trainable
    /\ Biases(copy.layers) = Biases(net.layers)
    /\ Weights(copy.layers) = Weights(net.layers)
    /\ Net_toJson(copy) = doc
    /\ doc = Net_toJson(net)

C7_JsonRoundTrip_Witness ==
  /\ last = "fromJson" /\ Len(copy.layers) = 3
  /\ copy.optimizerType = "SGD" /\ copy.learningRate = 1
  /\ \E i \in 1..3 : copy.layers[i].dropoutRate > 0 /\ copy.layers[i].activationType = "ReLU"
  /\ \E i \in 1..3 : copy.layers[i].activationType = "None"
  /\ \E i \in 1..3 : ~copy.layers[i].trainable
  /\ \E i \in 2..3 : \E j \in 1..Len(copy.layers[i].neurons) :
       copy.layers[i].neurons[j].bias # 0 /\ copy.layers[i].neurons[j].inputWeights[1] # 0

\* every unit of every layer but the first is kept by the dropout mask and
\* holds the activation function's value at weighted input + bias
NoDropout(ls) ==
  \A i \in 2..Len(ls) : \A j \in 1..Len(ls[i].neurons) :
    /\ ls[i].dropoutMask[j]
    /\ ls[i].neurons[j].activation =
         ActivationFunc(ls[i].activationType,
                        ls[i].neurons[j].weightedInput + ls[i].neurons[j].bias)

\* C8: a predict call leaves isTraining as it found it, also when the input
\* has the wrong length, leaves every weight and every bias as they were,
\* and, when it runs a forward pass, leaves every layer with no unit
\* dropped or rescaled and returns the last layer's activations.
C8_PredictFrame ==
  [][(calls' = calls + 1 /\ last' = "predict") =>
       /\ isTraining' = isTraining
       /\ Weights(net'.layers) = Weights(net.layers)
       /\ Biases(net'.layers) = Biases(net.layers)
       /\ (net.layers # <<>> /\ Len(arg') = InSize(net)) =>
            /\ NoDropout(net'.layers)
            /\ ret' = Layer_getActivations(net'.layers[Len(net'.layers)])
       /\ (net.layers = <<>> \/ Len(arg') # InSize(net)) => ret' = <<>> /\ net' = net]_vars

\* predict was called from the progress callback, in training mode, on a
\* network with a dropout layer, and returned a non-zero output
C8_PredictFrame_Witness ==
  /\ last = "predict" /\ isTraining /\ tpc = "callback"
  /\ \E i \in 2..Len(net.layers) : net.layers[i].dropoutRate > 0
  /\ \E k \in 1..Len(ret) : ret[k] # 0

\* C9: a predict call that immediately follows a predict call with the same
\* input returns the same output.
C9_PredictIdempotent ==
  (last = "predict" /\ prevPredict # <<>> /\ prevPredict[1] = arg) =>
    ret = prevPredict[2]

\* the second of two predict calls on a network with a dropout layer, after
\* a training pass that left a unit dropped and weighted inputs in the units
C9_PredictIdempotent_Witness ==
  /\ last = "predict" /\ prevPredict # <<>> /\ prevPredict[1] = arg
  /\ Len(arg) = InSize(net) /\ Len(net.layers) = 3
  /\ \E i \in 2..3 : net.layers[i].dropoutRate > 0
  /\ \E k \in 1..Len(ret) : ret[k] # 0

\* C10: on a network with at least one layer, forward and predict with an
\* input as long as the first layer return a vector as long as the last
\* layer, and predictBatch returns one such vector per input.
C10_OutputLength ==
  net.layers # <<>> =>
    /\ (last \in {"forward", "predict"} /\ Len(arg) = InSize(net)) =>
         Len(ret) = OutSize(net)
    /\ last = "predictBatch" =>
         /\ Len(ret) = Len(arg)
         /\ \A k \in 1..Len(arg) :
              Len(arg[k]) = InSize(net) => Len(ret[k]) = OutSize(net)

C10_OutputLength_Witness ==
  /\ last = "predictBatch" /\ Len(net.layers) >= 2 /\ Len(ret) = 2
  /\ InSize(net) # OutSize(net) /\ Len(ret[1]) = OutSize(net)

----------------------------------------------------------------------------
(* Properties of the error paths *)

\* C11: a forward call on a network without layers, or with an input whose
\* length is not the size of the first layer, returns the empty vector and
\* leaves the network (activations, weighted inputs, dropout masks, weights,
\* biases) and the flags isTraining, shouldStop, trainingProgress as they
\* were.
C11_ForwardRejects ==
  [][(calls' = calls + 1 /\ last' = "forward"
      /\ (net.layers = <<>> \/ Len(arg') # Layer_getSize(net.layers[1]))) =>
       /\ ret' = <<>>
       /\ net' = net
       /\ isTraining' = isTraining
       /\ shouldStop' = shouldStop
       /\ trainingProgress' = trainingProgress]_vars

\* forward has rejected an input one element too long on a network of
\* three layers whose units hold the activations of an earlier pass
C11_ForwardRejects_Witness ==
  /\ last = "forward" /\ ret = <<>> /\ Len(net.layers) = 3
  /\ Len(arg) = InSize(net) + 1
  /\ \E j \in 1..Len(net.layers[3].neurons) : net.layers[3].neurons[j].activation # 0
  /\ \E j \in 1..Len(net.layers[1].neurons) : net.layers[1].neurons[j].activation = 0

----------------------------------------------------------------------------
(* Properties of train beside a second thread *)

\* the operations that hold networkMutex_ from entry to return
LockProtected ==
  {"addLayer", "removeLayer", "clearLayers", "initializeWeights", "reset",
   "toJson", "fromJson"}

\* C12: while a trainSample of the background train is between the start of
\* its forward pass and the end of its weight update, no lock-protected
\* operation of the foreground thread has executed: the last operation that
\* acted is still the forward pass of that trainSample.
C12_TrainStepExcludesLocked ==
  tpc = "backward" => last \notin LockProtected

\* C13: once the background train call has returned and no predict call is
\* in progress on the foreground thread, isTraining is false.
C13_FlagClearAfterTrain ==
  (tpc = "idle" /\ tr # NoTrain /\ fg = NoPredict) => ~isTraining

\* every unit of a layer whose dropout rate is 1 is dropped
FullDropout(ls) ==
  \A i \in 2..Len(ls) :
    ls[i].dropoutRate = 2 => \A j \in 1..Len(ls[i].neurons) : ~ls[i].dropoutMask[j]

\* C14: beside a background train, the forward pass of a foreground predict
\* leaves no unit dropped or rescaled, and the forward pass of a trainSample
\* of train leaves dropped every unit of a layer whose dropout rate is 1.
C14_ModesIndependent ==
  /\ last = "predict.return" => NoDropout(net.layers)
  /\ (tpc = "backward" /\ last = "trainSample.forward") => FullDropout(net.layers)

\* C15: isTraining is false before train is entered, true from the first
\* statement of train to its return, in particular while train computes the
\* accuracy of the epoch, and false after train has returned.  Only the runs
\* in which train is the one call made are looked at.
C15_TrainingWhileInTrain ==
  (calls <= 1 /\ fg = NoPredict) =>
    /\ tr = NoTrain => ~isTraining
    /\ tpc \notin {"idle", "start"} => isTraining
    /\ (tpc = "idle" /\ tr # NoTrain) => ~isTraining

----------------------------------------------------------------------------
(* Properties of the calls with vectors of the wrong length *)

\* C16: a trainSample call whose input has not the length of the input
\* layer, or whose target has not the length of the output layer, returns
\* 0, reads past the end of no vector (so the process survives it), and
\* leaves every weight and every bias as they were.
C16_TrainSampleRejects ==
  [][(calls' = calls + 1 /\ last' = "trainSample" /\ net.layers # <<>>
      /\ (Len(arg'[1]) # InSize(net) \/ Len(arg'[2]) # OutSize(net))) =>
       /\ tpc' # "crashed"
       /\ \A p \in 1..Len(bkTrace') : bkTrace'[p].op # "oob"
       /\ ret' = Frac(0, 1)
       /\ Weights(net'.layers) = Weights(net.layers)
       /\ Biases(net'.layers) = Biases(net.layers)]_vars

\* the part of C16 that no read past the end of a vector is involved in: a
\* trainSample call that reads in bounds only and returns 0 for a target
\* that is too long leaves every weight and every bias as they were
C16_NoUpdateOnLongTarget ==
  [][(calls' = calls + 1 /\ last' = "trainSample" /\ net.layers # <<>>
      /\ Len(arg'[1]) = InSize(net) /\ Len(arg'[2]) > OutSize(net)) =>
       /\ Weights(net'.layers) = Weights(net.layers)
       /\ Biases(net'.layers) = Biases(net.layers)]_vars

\* C17, for the entry point train: no step of a train call whose data set
\* has not as many targets as inputs builds a batch, reads past the end of
\* the target list (so the process survives every step), or changes a
\* weight or a bias.
C17_CountMismatchRejected ==
  [][(tpc \notin {"idle", "crashed"} /\ Len(tr.inputData) # Len(tr.targetData)) =>
       /\ tpc' # "crashed"
       /\ tr'.batches = <<>>
       /\ Weights(net'.layers) = Weights(net.layers)
       /\ Biases(net'.layers) = Biases(net.layers)]_vars

\* the part of C17 that no read past the end of a vector is involved in: a
\* train call given more targets than inputs changes no weight
C17_NoUpdateOnMoreTargets ==
  [][(tpc # "idle" /\ Len(tr.inputData) < Len(tr.targetData)) =>
       Weights(net'.layers) = Weights(net.layers)]_vars

\* C18: when train, called first of all calls on a network with an empty
\* layer list, has returned, the progress callback has not been invoked,
\* the returned history holds no epoch, and trainingProgress, isTraining
\* and shouldStop have the values they had before the call, those of the
\* constructor.
C18_TrainOnEmptyIsNoOp ==
  (Returned /\ calls = 1 /\ net.layers = <<>>) =>
    /\ cbLog = <<>>
    /\ ret.trainLoss = <<>> /\ ret.trainAccuracy = <<>>
    /\ ret.valLoss = <<>> /\ ret.valAccuracy = <<>>
    /\ trainingProgress = Frac(0, 1)
    /\ ~isTraining
    /\ ~shouldStop

----------------------------------------------------------------------------
(* Properties of saveToFile and loadFromFile *)

\* C19: saveToFile and loadFromFile return a value whatever the file is
\* (no exception leaves them), having opened the file once and, for
\* loadFromFile on a file that opens, parsed it once; saveToFile returns
\* true exactly when the file can be opened, and loadFromFile returns true
\* exactly when the file can be opened, its text parses and no key present
\* in the document has a value of the wrong type.
C19_FileBoundary ==
  /\ last = "saveToFile" =>
       /\ ret.ok \in BOOLEAN
       /\ ret.opens = 1 /\ ret.parses = 0
       /\ ret.ok <=> arg.canOpen
  /\ last = "loadFromFile" =>
       /\ ret.ok \in BOOLEAN
       /\ ret.opens = 1 /\ ret.parses = (IF arg.canOpen THEN 1 ELSE 0)
       /\ ret.ok <=> (arg.canOpen /\ arg.parses
                         /\ arg.wrongType \cap DOMAIN arg.doc = {})

----------------------------------------------------------------------------
(* Properties of computeAccuracy *)

\* the first position of the largest element of v, counted from 0
Argmax(v) ==
  (CHOOSE i \in 1..Len(v) : /\ \A j \in 1..Len(v) : v[j] <= v[i]
                            /\ \A j \in 1..(i - 1) : v[j] < v[i]) - 1

\* the rule of C20 for one sample; the outputs here are whole numbers, which
\* rounding leaves as they are
CorrectByRounding(output, target) ==
  IF Len(output) = 1
  THEN LET diff == output[1] - target[1]
       IN 2 * (IF diff >= 0 THEN diff ELSE -diff) < 1
  ELSE Argmax(output) = Argmax(target)

\* C20: the accuracy that evaluate returns for a data set on a network
\* with layers is the number of samples that are correct by the rule
\* |round(output) - target| < 0.5 (one output) or argmax(output) =
\* argmax(target) (several outputs), divided by the number of samples, and
\* lies between 0 and 1.
C20_AccuracyRule ==
  (last = "evaluate" /\ net.layers # <<>>) =>
    LET outputs == ret.outputs
        targets == arg[2]
        correct == {i \in 1..Len(outputs) : CorrectByRounding(outputs[i], targets[i])}
    IN /\ FracEq(ret.accuracy, Frac(Cardinality(correct), Len(outputs)))
       /\ FracLe(Frac(0, 1), ret.accuracy) /\ FracLe(ret.accuracy, Frac(1, 1))

----------------------------------------------------------------------------
(* Properties of layers that are not trainable *)

\* the weights and the bias of every unit of layer l
LayerParams(l) ==
  [j \in 1..Len(l.neurons) |-> <<l.neurons[j].inputWeights, l.neurons[j].bias>>]

\* C21: no step of a trainSample call or of a train call changes a weight
\* or a bias of a layer that is not trainable, and a trainSample call gives
\* every unit of every trainable layer but the first its bias minus the
\* learning rate times its delta, whether the layer lies before or after a
\* layer that is not trainable.
C21_FrozenLayerKept ==
  [][/\ Len(net'.layers) = Len(net.layers)
     /\ \A i \in 1..Len(net.layers) :
          IF ~net.layers[i].trainable
          THEN LayerParams(net'.layers[i]) = LayerParams(net.layers[i])
          ELSE (calls' = calls + 1 /\ last' = "trainSample" /\ i >= 2) =>
                 \A j \in 1..Len(net.layers[i].neurons) :
                   net'.layers[i].neurons[j].bias =
                     net.layers[i].neurons[j].bias
                       - net.learningRate * net'.layers[i].neurons[j].delta]_vars

\* after calls that train, the third layer is as constructed, with a weight
\* that is not 0, and the second and the fourth are not
C21_FrozenLayerKept_Witness ==
  /\ calls >= 1 /\ tpc = "idle"
  /\ net.layers[3].neurons[1].inputWeights[1] # 0
  /\ \A seed \in Seeds :
       LET n0 == NetFromConfig(CHOOSE c \in FrozenConfigs : TRUE, seed)
       IN /\ LayerParams(net.layers[2]) # LayerParams(n0.layers[2])
          /\ LayerParams(net.layers[4]) # LayerParams(n0.layers[4])

----------------------------------------------------------------------------
(* Properties of the dropout rate *)

\* C22: in every reachable state the dropout rate of every layer lies
\* between 0 and 1 (between 0 and 2 halves).
C22_DropoutRateInRange ==
  \A i \in 1..Len(net.layers) :
    0 <= net.layers[i].dropoutRate /\ net.layers[i].dropoutRate <= 2

----------------------------------------------------------------------------
(* Properties of reset *)

\* C23: a reset call sets activation, weighted input, gradient and delta of
\* every unit of every layer to 0 and leaves every bias, every incoming
\* weight, every id, name and trainable flag, the number of layers and the
\* size, name, activation type and dropout rate of every layer as they
\* were; predict on the network that reset leaves, if it has a layer,
\* returns as many values as the last layer has units.
C23_ResetKeepsParameters ==
  [][(calls' = calls + 1 /\ last' = "reset") =>
       /\ Len(net'.layers) = Len(net.layers)
       /\ net'.name = net.name /\ net'.learningRate = net.learningRate
       /\ \A i \in 1..Len(net.layers) :
            LET l == net.layers[i]
                m == net'.layers[i]
            IN /\ m.name = l.name /\ m.trainable = l.trainable
               /\ m.activationType = l.activationType
               /\ m.dropoutRate = l.dropoutRate
               /\ Len(m.neurons) = Len(l.neurons)
               /\ \A j \in 1..Len(l.neurons) :
                    LET u == l.neurons[j]
                        v == m.neurons[j]
                    IN /\ v.activation = 0 /\ v.weightedInput = 0
                       /\ v.gradient = 0 /\ v.delta = 0
                       /\ v.bias = u.bias /\ v.inputWeights = u.inputWeights
                       /\ v.id = u.id /\ v.name = u.name
                       /\ v.trainable = u.trainable
       /\ (net.layers # <<>> /\ InDomain(net')) =>
            Len(Net_predict(net', Ones(InSize(net')), isTraining').out) = OutSize(net')]_vars

\* reset has returned on a network of three layers that was trained before:
\* a bias and a weight are not 0
C23_ResetKeepsParameters_Witness ==
  /\ last = "reset" /\ calls >= 2
  /\ Len(net.layers) = 3
  /\ \E i \in 2..3 : \E j \in 1..Len(net.layers[i].neurons) :
       /\ net.layers[i].neurons[j].bias # 0
       /\ \E k \in 1..Len(net.layers[i].neurons[j].inputWeights) :
            net.layers[i].neurons[j].inputWeights[k] # 0

----------------------------------------------------------------------------
(* Properties of the shuffle *)

\* how often the pair x of an input and its target occurs in the data
PairCount(inputs, targets, x) ==
  Cardinality({i \in 1..Len(inputs) : <<inputs[i], targets[i]>> = x})

\* C24: from the first shuffle of a train call on, the lists train works on
\* are as long as the data the caller passed, and every pair of an input
\* and its target occurs in them as often as in that data; no step of train
\* changes the data the caller passed.
C24_ShufflePairs ==
  [][(tr # NoTrain /\ tpc # "idle") =>
       /\ tr'.inputData = tr.inputData /\ tr'.targetData = tr.targetData
       /\ tpc' \notin {"start", "crashed"} =>
            /\ Len(tr'.inputs) = Len(tr.inputData)
            /\ Len(tr'.targets) = Len(tr.targetData)
            /\ \A i \in 1..Len(tr.inputData) :
                 LET x == <<tr.inputData[i], tr.targetData[i]>>
                 IN PairCount(tr'.inputs, tr'.targets, x)
                      = PairCount(tr.inputData, tr.targetData, x)]_vars

\* a shuffle has given three samples, two of them with the same input and
\* different targets, an order that is not the order of the caller
C24_ShufflePairs_Witness ==
  /\ tpc = "batch"
  /\ Len(tr.inputData) = 3
  /\ tr.inputs # tr.inputData /\ tr.targets # tr.targetData
  /\ \E i, j \in 1..3 : /\ tr.inputData[i] = tr.inputData[j]
                        /\ tr.targetData[i] # tr.targetData[j]

----------------------------------------------------------------------------
(* Termination of train *)

\* C25: every train call, whatever its batch size (0 included) and whether
\* or not its data set is empty, returns with its history after finitely
\* many steps.
C25_TrainTerminates ==
  (tpc = "start") ~> (Returned /\ Len(ret.trainLoss) = EpochsStarted)

----------------------------------------------------------------------------
(* Properties of the destructor *)

\* C26: when the destructor has returned, no train call is between its
\* entry and its return.
C26_DestructorWaitsForTrain ==
  fg.pc = "destroyed" => tpc \notin Running

\* the same for the train calls that have passed line 233, where train sets
\* isTraining
C26_WaitsOnceFlagSet ==
  [][(fg.pc = "wait" /\ fg'.pc = "destroyed") => tpc \notin Running \ {"start"}]_vars

\* C27: the destructor returns once the train call has returned: whenever the
\* destructor is in its wait loop and no train call is between its entry and
\* its return, isTraining is false, so that the next pass of the loop ends it.
\* No thread but the destructor runs in such a state, and the destructor only
\* reads the flag: where isTraining is true there, it stays true for ever.
C27_WaitEndsAfterTrain ==
  (fg.pc = "wait" /\ tpc \notin Running) => ~isTraining

\* the same as a temporal formula: once the destructor has requested the
\* stop, finitely many steps lead to a point from which on the destructor has
\* returned, the train call has returned, and isTraining is false
C27_DestructorReturns ==
  (fg.pc = "wait") ~> [](fg.pc = "destroyed" /\ tpc \notin Running /\ ~isTraining)

----------------------------------------------------------------------------
(* Properties of the progress and of the stop flag *)

\* C28: no step of a train call, from its entry to its return, of the first
\* call on a network or of a later one, makes trainingProgress smaller.
C28_ProgressNeverDecreases ==
  [][(tpc \in Running) =>
       FracLe(trainingProgress, trainingProgress')]_vars

\* the same for the first train call on a network
C28_FirstCallProgress ==
  [][(tpc \in Running /\ calls = 1) =>
       FracLe(trainingProgress, trainingProgress')]_vars

\* C29: a train call that is entered after stopTraining has returned, and
\* during which stopTraining is not called, finds the stop flag clear from
\* line 234 on and returns only after it has run all its epochs, with a
\* history of as many entries.
C29_StopBeforeEntryCleared ==
  /\ tpc \in Running \ {"start"} => ~shouldStop
  /\ Returned =>
       /\ ~shouldStop
       /\ EpochsStarted = tr.epochs
       /\ Len(ret.trainLoss) = tr.epochs
       /\ tr.hasCb => cbLog = [e \in 1..tr.epochs |-> e - 1]

\* stopTraining was called, then train for two epochs, and train has returned
C29_StopBeforeEntryCleared_Witness ==
  /\ Returned
  /\ calls = 2
  /\ tr.epochs = 2 /\ Len(tr.inputData) = 2
  /\ Len(ret.trainLoss) = 2

----------------------------------------------------------------------------
(* Properties of a failed load *)

\* what C30 says a failed load keeps
Loaded(n) ==
  <<n.name, n.learningRate, n.lossType, n.optimizerType, Len(n.layers),
    Weights(n.layers), Biases(n.layers)>>

\* C30: a loadFromFile call that returns false leaves the name, the
\* learning rate, the loss tag, the optimizer tag and the layers of the
\* network, with every weight and bias, as they were.
C30_FailedLoadKeepsNetwork ==
  [][(calls' = calls + 1 /\ last' = "loadFromFile" /\ ~ret'.ok) =>
       Loaded(net') = Loaded(net)]_vars

\* the same for the files that cannot be opened or do not parse
C30_UnreadFileKeepsNetwork ==
  [][(calls' = calls + 1 /\ last' = "loadFromFile"
        /\ ~(arg'.canOpen /\ arg'.parses)) =>
       ~ret'.ok /\ Loaded(net') = Loaded(net)]_vars

====
